---- MODULE Spec2Model ----
(***************************************************************************)
(* A state-machine model of the budget_bot library: the JSON document the  *)
(* StorageManager holds in memory, the services that mutate it              *)
(* (TransactionService, BudgetEngine, GoalsService), the read side          *)
(* (BudgetEngine status and alerts, AnalyticsEngine trends) and the         *)
(* ClawhubBudget facade with its initialized flag.                          *)
(*                                                                         *)
(* Conventions of the model                                                *)
(*  - A date string 'YYYY-MM-DD' is the tuple <<y, m, d>>; the lexical      *)
(*    order of the strings is the lexicographic order of the tuples.        *)
(*  - A JavaScript Date is an instant counted in whole hours since          *)
(*    1970-01-01T00:00Z.  Every instant the model forms (the clock, the     *)
(*    UTC midnight of a date string, a local midnight) is a whole hour, so  *)
(*    an interval end of 23:59:59.999 is carried as the last whole hour     *)
(*    (hour 23) of that local day and compares the same.                    *)
(*  - tz is the process's UTC offset in hours (no daylight-saving change).  *)
(*  - Money amounts are whole numbers of cents: 50.25 is 5025.  Fractions   *)
(*    (alertThreshold) are carried in hundredths: 0.8 is 80.  A quotient    *)
(*    the code computes in floating point (percentageUsed) is carried as    *)
(*    an exact fraction [num, den].                                         *)
(*  - An object is a record; an absent optional property is an absent       *)
(*    field, and {...a, ...b} is Merge(a, b).                               *)
(*  - ids are drawn fresh (uuidv4); a goal keeps its createdAt; the other   *)
(*    stamps (createdAt, updatedAt, a budget's startDate), tags, merchant,  *)
(*    notes and display messages are left out of the records.               *)
(***************************************************************************)
EXTENDS Integers, Sequences, FiniteSets, TLC

VARIABLES
    transactions,   \* StorageManager.data.transactions
    budgets,        \* StorageManager.data.budgets
    goals,          \* StorageManager.data.goals
    categories,     \* StorageManager.data.categories
    insights,       \* StorageManager.data.insights
    initialized,    \* ClawhubBudget.initialized
    now,            \* the clock: what new Date() returns, in whole hours UTC
    tz,             \* the UTC offset of the process's time zone, in hours
    result,         \* what the last call returned (or threw)
    running         \* the calls suspended at an await, each with what it holds

vars == <<transactions, budgets, goals, categories, insights, initialized, now, tz, result, running>>

\* The persisted collections of the document.
store == <<transactions, budgets, goals, categories, insights>>

----------------------------------------------------------------------------
(* Generic helpers: object spread, array reduce, array filter/find.        *)

Has(r, f) == f \in DOMAIN r

\* {...old, ...upd}
Merge(old, upd) ==
    [f \in (DOMAIN old) \cup (DOMAIN upd) |-> IF f \in DOMAIN upd THEN upd[f] ELSE old[f]]

RECURSIVE SumAmounts(_)
\* xs.reduce((sum, t) => sum + t.amount, 0)
SumAmounts(xs) ==
    IF xs = <<>> THEN 0 ELSE Head(xs).amount + SumAmounts(Tail(xs))

\* The index of the first element with the given id, 0 when there is none (findIndex, -1).
findIndex(xs, id) ==
    IF \E i \in 1..Len(xs) : xs[i].id = id
    THEN CHOOSE i \in 1..Len(xs) : xs[i].id = id /\ \A j \in 1..(i - 1) : xs[j].id # id
    ELSE 0

\* xs.splice(index, 1)
splice(xs, index) == [i \in 1..(Len(xs) - 1) |-> IF i < index THEN xs[i] ELSE xs[i + 1]]

Ids(xs) == {xs[i].id : i \in 1..Len(xs)}

\* uuidv4(): an id no stored entity of the collection carries.
uuidv4(xs) ==
    CHOOSE i \in 1..(Len(xs) + 1) : i \notin Ids(xs) /\ \A j \in 1..(i - 1) : j \in Ids(xs)

----------------------------------------------------------------------------
(* The calendar: JavaScript Date and the date-fns helpers the code calls.  *)

HoursPerDay == 24

isLeapYear(y) == (y % 4 = 0 /\ y % 100 # 0) \/ y % 400 = 0

getDaysInMonth(y, m) ==
    IF m = 2 THEN (IF isLeapYear(y) THEN 29 ELSE 28)
    ELSE IF m \in {4, 6, 9, 11} THEN 30 ELSE 31

\* Days from 1970-01-01 to the civil date <<y, m, d>> (a day past the month's end rolls over).
DayNumber(date) ==
    LET y   == IF date[2] <= 2 THEN date[1] - 1 ELSE date[1]
        era == y \div 400
        yoe == y - era * 400
        mp  == (date[2] + 9) % 12
        doy == (153 * mp + 2) \div 5 + date[3] - 1
        doe == yoe * 365 + yoe \div 4 - yoe \div 100 + doy
    IN  era * 146097 + doe - 719468

\* The civil date of a day number.
DateOfDay(n) ==
    LET z   == n + 719468
        era == z \div 146097
        doe == z - era * 146097
        yoe == (doe - doe \div 1460 + doe \div 36524 - doe \div 146096) \div 365
        doy == doe - (365 * yoe + yoe \div 4 - yoe \div 100)
        mp  == (5 * doy + 2) \div 153
        d   == doy - (153 * mp + 2) \div 5 + 1
        m   == IF mp < 10 THEN mp + 3 ELSE mp - 9
        y   == yoe + era * 400 + (IF m <= 2 THEN 1 ELSE 0)
    IN  <<y, m, d>>

\* 'YYYY-MM-DD' string comparison a <= b.
DateLE(a, b) ==
    \/ a[1] < b[1]
    \/ a[1] = b[1] /\ a[2] < b[2]
    \/ a[1] = b[1] /\ a[2] = b[2] /\ a[3] <= b[3]

\* new Date('YYYY-MM-DD'): a date-only string is read as midnight UTC.
newDate(dateString) == DayNumber(dateString) * HoursPerDay

\* date.toISOString().split('T')[0]: the UTC calendar date of an instant.
toISODate(instant) == DateOfDay(instant \div HoursPerDay)

\* The local calendar day (as a day number) an instant falls in.
LocalDay(instant) == (instant + tz) \div HoursPerDay

\* The instant of local midnight opening a local day, and of its last hour.
LocalDayStart(day) == day * HoursPerDay - tz
LocalDayEnd(day) == day * HoursPerDay + (HoursPerDay - 1) - tz

\* date.getDay() in local time: 0 is Sunday.
getDay(instant) == (LocalDay(instant) + 4) % 7

startOfDay(instant) == LocalDayStart(LocalDay(instant))
endOfDay(instant) == LocalDayEnd(LocalDay(instant))

\* date-fns weeks start on Sunday (weekStartsOn 0, the default the code uses).
startOfWeek(instant) == LocalDayStart(LocalDay(instant) - getDay(instant))
endOfWeek(instant) == LocalDayEnd(LocalDay(instant) - getDay(instant) + 6)

startOfMonth(instant) ==
    LET d == DateOfDay(LocalDay(instant)) IN LocalDayStart(DayNumber(<<d[1], d[2], 1>>))
endOfMonth(instant) ==
    LET d == DateOfDay(LocalDay(instant))
    IN  LocalDayEnd(DayNumber(<<d[1], d[2], getDaysInMonth(d[1], d[2])>>))

startOfYear(instant) ==
    LET d == DateOfDay(LocalDay(instant)) IN LocalDayStart(DayNumber(<<d[1], 1, 1>>))
endOfYear(instant) ==
    LET d == DateOfDay(LocalDay(instant)) IN LocalDayEnd(DayNumber(<<d[1], 12, 31>>))

isWithinInterval(instant, interval) ==
    interval.start <= instant /\ instant <= interval.end

----------------------------------------------------------------------------
(* Strings: a JavaScript string is a TLA+ string, read character by        *)
(* character with SubSeq.                                                  *)

\* s.charAt(i - 1): the i-th character, "" outside the string.
Char(s, i) == IF i \in 1..Len(s) THEN SubSeq(s, i, i) ELSE ""

LowerLetters ==
    <<"a", "b", "c", "d", "e", "f", "g", "h", "i", "j", "k", "l", "m",
      "n", "o", "p", "q", "r", "s", "t", "u", "v", "w", "x", "y", "z">>
UpperLetters ==
    <<"A", "B", "C", "D", "E", "F", "G", "H", "I", "J", "K", "L", "M",
      "N", "O", "P", "Q", "R", "S", "T", "U", "V", "W", "X", "Y", "Z">>

\* The lower-case and upper-case form of each letter.
LowerOf == [c \in {UpperLetters[k] : k \in 1..Len(UpperLetters)} |->
               LowerLetters[CHOOSE k \in 1..Len(UpperLetters) : UpperLetters[k] = c]]
UpperOf == [c \in {LowerLetters[k] : k \in 1..Len(LowerLetters)} |->
               UpperLetters[CHOOSE k \in 1..Len(LowerLetters) : LowerLetters[k] = c]]

LowerChar(c) == IF c \in DOMAIN LowerOf THEN LowerOf[c] ELSE c
UpperChar(c) == IF c \in DOMAIN UpperOf THEN UpperOf[c] ELSE c

\* s.toLowerCase(), character by character.
lowerCharacters(s) ==
    LET RECURSIVE lower(_)
        lower(i) == IF i > Len(s) THEN "" ELSE LowerChar(Char(s, i)) \o lower(i + 1)
    IN  lower(1)

\* The names the stored entities carry, lower-cased once with lowerCharacters.
Names ==
    {"Food & Dining", "Transportation", "Shopping", "Bills & Utilities", "Entertainment",
     "Health & Fitness", "Education", "Personal Care", "Subscriptions", "Other Expenses",
     "Salary", "Freelance", "Investments", "Gifts", "Other Income",
     "FOOD & DINING", "food & dining", "Pets"}
LowerCased == [s \in Names |-> lowerCharacters(s)]

\* s.toLowerCase()
toLowerCase(s) == IF s \in Names THEN LowerCased[s] ELSE lowerCharacters(s)

\* The keyword kw stands in s from position i on.
startsWithAt(s, i, kw) ==
    /\ i >= 1
    /\ i + Len(kw) - 1 <= Len(s)
    /\ SubSeq(s, i, i + Len(kw) - 1) = kw

\* s.includes(kw)
includes(s, kw) == \E i \in 1..(Len(s) - Len(kw) + 1) : startsWithAt(s, i, kw)

----------------------------------------------------------------------------
(* StorageManager: the default document.                                   *)

\* A stored Category, reduced to the one property the operations read: its name.
Category(id, name, type) == [name |-> name]

getDefaultCategories ==
    << Category("cat_food", "Food & Dining", "expense"),
       Category("cat_transport", "Transportation", "expense"),
       Category("cat_shopping", "Shopping", "expense"),
       Category("cat_bills", "Bills & Utilities", "expense"),
       Category("cat_entertainment", "Entertainment", "expense"),
       Category("cat_health", "Health & Fitness", "expense"),
       Category("cat_education", "Education", "expense"),
       Category("cat_personal", "Personal Care", "expense"),
       Category("cat_subscriptions", "Subscriptions", "expense"),
       Category("cat_other_exp", "Other Expenses", "expense"),
       Category("cat_salary", "Salary", "income"),
       Category("cat_freelance", "Freelance", "income"),
       Category("cat_investments", "Investments", "income"),
       Category("cat_gifts", "Gifts", "income"),
       Category("cat_other_inc", "Other Income", "income") >>

\* this.data.categories.find(c => c.name.toLowerCase() === name.toLowerCase()); <<>> is undefined.
getCategoryByName(name) ==
    LET hits == SelectSeq(categories, LAMBDA c : toLowerCase(c.name) = toLowerCase(name))
    IN  IF hits = <<>> THEN <<>> ELSE <<Head(hits)>>

\* { ...this.data.xs[index], ...updates } written back at index.
storageUpdate(xs, id, updates) ==
    [xs EXCEPT ![findIndex(xs, id)] = Merge(xs[findIndex(xs, id)], updates)]

----------------------------------------------------------------------------
(* What a call hands back: an ActionResult, a query's value, or an error   *)
(* thrown at the caller.                                                   *)

NoResult == [op |-> "none"]
Failure(op, message, error) == [op |-> op, success |-> FALSE, message |-> message, error |-> error]
Success(op, data) == [op |-> op, success |-> TRUE, data |-> data]
Returned(op, data) == [op |-> op, data |-> data]
Thrown(op, error) == [op |-> op, thrown |-> error]

----------------------------------------------------------------------------
(* validator.ts                                                            *)

\* /^\d{4}-\d{2}-\d{2}$/ and a Date that is not NaN (V8 reads a day up to 31 in any month).
isValidDate(dateString) ==
    /\ Len(dateString) = 3
    /\ dateString[1] \in 0..9999
    /\ dateString[2] \in 1..12
    /\ dateString[3] \in 1..31

Err(cond, message) == IF cond THEN <<message>> ELSE <<>>

Validation(errors) == [valid |-> errors = <<>>, errors |-> errors]

validateTransaction(data) ==
    Validation(
        Err(~Has(data, "type") \/ data.type \notin {"expense", "income"},
            "Type must be expense or income")
        \o (IF ~Has(data, "amount") THEN <<"Amount is required">>
            ELSE Err(data.amount <= 0, "Amount must be a positive number"))
        \o Err(~Has(data, "category") \/ data.category = "", "Category is required")
        \o Err(~Has(data, "description") \/ data.description = "", "Description is required")
        \o Err(~Has(data, "date") \/ ~isValidDate(data.date), "Valid date is required (YYYY-MM-DD format)"))

validPeriods == {"daily", "weekly", "monthly", "yearly"}

validateBudget(data) ==
    Validation(
        Err(~Has(data, "name") \/ data.name = "", "Budget name is required")
        \o Err(~Has(data, "category") \/ data.category = "", "Category is required")
        \o (IF ~Has(data, "limit") THEN <<"Limit is required">>
            ELSE Err(data.limit <= 0, "Limit must be a positive number"))
        \o Err(~Has(data, "period") \/ data.period \notin validPeriods,
               "Period must be one of: daily, weekly, monthly, yearly")
        \o (IF Has(data, "alertThreshold")
            THEN Err(data.alertThreshold < 0 \/ data.alertThreshold > 100,
                     "Alert threshold must be a number between 0 and 1")
            ELSE <<>>))

validPriorities == {"low", "medium", "high"}

validateGoal(data) ==
    Validation(
        Err(~Has(data, "name") \/ data.name = "", "Goal name is required")
        \o (IF ~Has(data, "targetAmount") THEN <<"Target amount is required">>
            ELSE Err(data.targetAmount <= 0, "Target amount must be a positive number"))
        \o (IF Has(data, "currentAmount")
            THEN Err(data.currentAmount < 0, "Current amount must be a non-negative number")
            ELSE <<>>)
        \o Err(Has(data, "deadline") /\ ~isValidDate(data.deadline),
               "Invalid deadline format (use YYYY-MM-DD)")
        \o Err(Has(data, "priority") /\ data.priority \notin validPriorities,
               "Priority must be one of: low, medium, high"))

----------------------------------------------------------------------------
(* TransactionService: CRUD.                                               *)

\* existing?.name || category
normalizeCategory(category) ==
    IF getCategoryByName(category) # <<>> THEN getCategoryByName(category)[1].name ELSE category

\* The Transaction object addTransaction builds from validated data.
newTransaction(data) ==
    Merge([id          |-> uuidv4(transactions),
           type        |-> data.type,
           amount      |-> data.amount,
           category    |-> normalizeCategory(data.category),
           description |-> data.description,
           date        |-> IF Has(data, "date") THEN data.date ELSE toISODate(now),
           isRecurring |-> IF Has(data, "isRecurring") THEN data.isRecurring ELSE FALSE],
          Merge(IF Has(data, "recurringConfig")
                THEN [recurringConfig |-> data.recurringConfig]
                ELSE <<>>,
                IF Has(data, "notes") THEN [notes |-> data.notes] ELSE <<>>))

\* Variant of addTransaction that stores the transaction before it validates the data.
addTransaction_storeFirst(data) ==
    LET validation == validateTransaction(
            Merge(data, [date |-> IF Has(data, "date") THEN data.date ELSE toISODate(now)]))
    IN  /\ transactions' = Append(transactions, newTransaction(data))
        /\ result' = IF validation.valid
                     THEN Success("addTransaction", newTransaction(data))
                     ELSE Failure("addTransaction", "Validation failed", validation.errors)
        /\ UNCHANGED <<budgets, goals, categories, insights, initialized, now, tz, running>>

addTransaction(data) ==
    LET validation == validateTransaction(
            Merge(data, [date |-> IF Has(data, "date") THEN data.date ELSE toISODate(now)]))
    IN  IF ~validation.valid
        THEN /\ result' = Failure("addTransaction", "Validation failed", validation.errors)
             /\ UNCHANGED <<transactions, budgets, goals, categories, insights, initialized, now, tz, running>>
        ELSE /\ transactions' = Append(transactions, newTransaction(data))
             /\ result' = Success("addTransaction", newTransaction(data))
             /\ UNCHANGED <<budgets, goals, categories, insights, initialized, now, tz, running>>

updateTransaction(id, updates) ==
    IF findIndex(transactions, id) = 0
    THEN /\ result' = Failure("updateTransaction", "Transaction not found", id)
         /\ UNCHANGED <<transactions, budgets, goals, categories, insights, initialized, now, tz, running>>
    ELSE /\ transactions' = storageUpdate(transactions, id, updates)
         /\ result' = Success("updateTransaction", transactions'[findIndex(transactions, id)])
         /\ UNCHANGED <<budgets, goals, categories, insights, initialized, now, tz, running>>

deleteTransaction(id) ==
    IF findIndex(transactions, id) = 0
    THEN /\ result' = Failure("deleteTransaction", "Failed to delete", "Transaction not found")
         /\ UNCHANGED <<transactions, budgets, goals, categories, insights, initialized, now, tz, running>>
    ELSE /\ transactions' = splice(transactions, findIndex(transactions, id))
         /\ result' = Success("deleteTransaction", id)
         /\ UNCHANGED <<budgets, goals, categories, insights, initialized, now, tz, running>>

----------------------------------------------------------------------------
(* BudgetEngine.                                                           *)

\* data.alertThreshold ?? 0.8, in hundredths.
DefaultAlertThreshold == 80

newBudget(data) ==
    [id             |-> uuidv4(budgets),
     name           |-> data.name,
     category       |-> data.category,
     limit          |-> data.limit,
     spent          |-> 0,
     period         |-> data.period,
     alertThreshold |-> IF Has(data, "alertThreshold") THEN data.alertThreshold
                        ELSE DefaultAlertThreshold,
     isActive       |-> TRUE]

createBudget(data) ==
    IF ~validateBudget(data).valid
    THEN /\ result' = Failure("createBudget", "Validation failed", validateBudget(data).errors)
         /\ UNCHANGED <<transactions, budgets, goals, categories, insights, initialized, now, tz, running>>
    ELSE /\ budgets' = Append(budgets, newBudget(data))
         /\ result' = Success("createBudget", newBudget(data))
         /\ UNCHANGED <<transactions, goals, categories, insights, initialized, now, tz, running>>

updateBudget(id, updates) ==
    IF findIndex(budgets, id) = 0
    THEN /\ result' = Failure("updateBudget", "Budget not found", id)
         /\ UNCHANGED <<transactions, budgets, goals, categories, insights, initialized, now, tz, running>>
    ELSE /\ budgets' = storageUpdate(budgets, id, updates)
         /\ result' = Success("updateBudget", budgets'[findIndex(budgets, id)])
         /\ UNCHANGED <<transactions, goals, categories, insights, initialized, now, tz, running>>

deleteBudget(id) ==
    IF findIndex(budgets, id) = 0
    THEN /\ result' = Failure("deleteBudget", "Failed to delete budget", "Budget not found")
         /\ UNCHANGED <<transactions, budgets, goals, categories, insights, initialized, now, tz, running>>
    ELSE /\ budgets' = splice(budgets, findIndex(budgets, id))
         /\ result' = Success("deleteBudget", id)
         /\ UNCHANGED <<transactions, goals, categories, insights, initialized, now, tz, running>>

getPeriodRange(period) ==
    CASE period = "daily"   -> [start |-> startOfDay(now),   end |-> endOfDay(now)]
      [] period = "weekly"  -> [start |-> startOfWeek(now),  end |-> endOfWeek(now)]
      [] period = "monthly" -> [start |-> startOfMonth(now), end |-> endOfMonth(now)]
      [] period = "yearly"  -> [start |-> startOfYear(now),  end |-> endOfYear(now)]

\* percentageUsed >= percent, for the exact fraction percentageUsed = num / den (den > 0).
AtLeast(percentageUsed, percent) == percentageUsed.num >= percent * percentageUsed.den

Max(a, b) == IF a >= b THEN a ELSE b

\* The ledger entries a budget counts: the filter of calculateBudgetStatus.
countedTransactions(budget) ==
    SelectSeq(transactions, LAMBDA t :
        /\ t.type = "expense"
        /\ toLowerCase(t.category) = toLowerCase(budget.category)
        /\ isWithinInterval(newDate(t.date), getPeriodRange(budget.period)))

\* Variant of remainingOf without the clamp at zero.
remainingOf_unclamped(budget, spent) == budget.limit - spent

\* Math.max(0, budget.limit - spent)
remainingOf(budget, spent) == Max(0, budget.limit - spent)

\* budget.limit > 0 ? (spent / budget.limit) * 100 : 0
percentageUsedOf(budget, spent) ==
    IF budget.limit > 0 THEN [num |-> spent * 100, den |-> budget.limit]
    ELSE [num |-> 0, den |-> 1]

\* Variant of statusOf where a budget exactly at its limit is not yet exceeded.
statusOf_strict(budget, percentageUsed) ==
    IF percentageUsed.num > 100 * percentageUsed.den THEN "exceeded"
    ELSE IF AtLeast(percentageUsed, budget.alertThreshold) THEN "warning"
    ELSE "under"

\* budget.alertThreshold * 100 is the stored hundredths read as a percentage.
statusOf(budget, percentageUsed) ==
    IF AtLeast(percentageUsed, 100) THEN "exceeded"
    ELSE IF AtLeast(percentageUsed, budget.alertThreshold) THEN "warning"
    ELSE "under"

calculateBudgetStatus(budget) ==
    LET spent == SumAmounts(countedTransactions(budget))
    IN  [budgetId       |-> budget.id,
         budgetName     |-> budget.name,
         category       |-> budget.category,
         limit          |-> budget.limit,
         spent          |-> spent,
         remaining      |-> remainingOf(budget, spent),
         percentageUsed |-> percentageUsedOf(budget, spent),
         status         |-> statusOf(budget, percentageUsedOf(budget, spent))]

MapSeq(xs, F(_)) == [i \in 1..Len(xs) |-> F(xs[i])]

\* budgetId is <<>> when the argument is omitted, <<id>> otherwise.
getBudgetStatus(budgetId) ==
    LET chosen == IF budgetId # <<>>
                  THEN SelectSeq(budgets, LAMBDA b : b.id = budgetId[1])
                  ELSE SelectSeq(budgets, LAMBDA b : b.isActive)
    IN  MapSeq(chosen, calculateBudgetStatus)

\* Variant of checkBudgetAlerts that also reports budgets that are switched off.
checkBudgetAlerts_inactiveToo ==
    LET Checked(b) == [budget |-> b, status |-> calculateBudgetStatus(b)]
    IN  SelectSeq(MapSeq(budgets, Checked),
                  LAMBDA a : a.status.status = "exceeded" \/ a.status.status = "warning")

checkBudgetAlerts ==
    LET active == SelectSeq(budgets, LAMBDA b : b.isActive)
        Checked(b) == [budget |-> b, status |-> calculateBudgetStatus(b)]
    IN  SelectSeq(MapSeq(active, Checked),
                  LAMBDA a : a.status.status = "exceeded" \/ a.status.status = "warning")

\* The read-side calls: the value goes back to the caller, the document stays.
Query_getBudgetStatus(budgetId) ==
    /\ result' = Returned("getBudgetStatus", getBudgetStatus(budgetId))
    /\ UNCHANGED <<transactions, budgets, goals, categories, insights, initialized, now, tz, running>>

Query_checkBudgetAlerts ==
    /\ result' = Returned("checkBudgetAlerts", checkBudgetAlerts)
    /\ UNCHANGED <<transactions, budgets, goals, categories, insights, initialized, now, tz, running>>

----------------------------------------------------------------------------
(* The clock.  Time passes between calls; the time zone is fixed for the   *)
(* life of the process.                                                    *)

\* The clock moves in steps of half a day.
ClockStep == HoursPerDay \div 2

\* How many steps the clock takes in a run of the model.  result is the value the
\* call just completed handed back; once the clock has moved on there is none.
MaxTicks == 2

\* Saturday 2023-12-30 is followed by Sunday 2023-12-31 (a new week) and by
\* 2024-01-01 (a new month and year); the clock starts at 02:00Z on the 31st.
ClockStart == newDate(<<2023, 12, 31>>) + 2

\* UTC-5 (west of Greenwich) and UTC.
TimeZones == {-5, 0}

Tick ==
    /\ now + ClockStep <= ClockStart + MaxTicks * ClockStep
    /\ now' = now + ClockStep
    /\ result' = NoResult
    /\ UNCHANGED <<transactions, budgets, goals, categories, insights, initialized, tz, running>>

----------------------------------------------------------------------------
(* SpecBudget: the ledger, one budget engine and the clock.                *)

MaxTransactions == 2
MaxBudgets == 1

\* What callers pass to addTransaction: expenses of the budgeted category on each
\* side of the period boundaries, a second amount, an income and another category.
TransactionInputs ==
    [type : {"expense"}, amount : {2}, category : {"food & dining"},
     description : {"lunch"}, date : {<<2023, 12, 30>>, <<2023, 12, 31>>, <<2024, 1, 1>>}]
    \cup {[type |-> "expense", amount |-> 3, category |-> "food & dining",
           description |-> "lunch", date |-> <<2023, 12, 31>>],
          [type |-> "income", amount |-> 3, category |-> "food & dining",
           description |-> "refund", date |-> <<2023, 12, 31>>],
          [type |-> "expense", amount |-> 3, category |-> "Pets",
           description |-> "vet", date |-> <<2023, 12, 31>>]}

TransactionUpdates == {[amount |-> 3], [category |-> "Pets"]}

BudgetInputs ==
    [name : {"B"}, category : {"FOOD & DINING"}, limit : {5}, period : validPeriods]

BudgetUpdates == {[spent |-> 9]}

InitBudget ==
    /\ transactions = <<>>
    /\ budgets = <<>>
    /\ goals = <<>>
    /\ categories = getDefaultCategories
    /\ insights = <<>>
    /\ initialized = TRUE
    /\ now = ClockStart
    /\ tz \in TimeZones
    /\ result = NoResult
    /\ running = <<>>

NextBudget ==
    \/ \E data \in TransactionInputs :
          Len(transactions) < MaxTransactions /\ addTransaction(data)
    \/ \E id \in Ids(transactions), updates \in TransactionUpdates :
          updateTransaction(id, updates)
    \/ \E id \in Ids(transactions) : deleteTransaction(id)
    \/ \E data \in BudgetInputs : Len(budgets) < MaxBudgets /\ createBudget(data)
    \/ \E id \in Ids(budgets), updates \in BudgetUpdates : updateBudget(id, updates)
    \/ \E id \in Ids(budgets) : deleteBudget(id)
    \/ \E budgetId \in {<<>>} \cup {<<id>> : id \in Ids(budgets)} :
          Query_getBudgetStatus(budgetId)
    \/ Query_checkBudgetAlerts
    \/ Tick

SpecBudget == InitBudget /\ [][NextBudget]_vars

----------------------------------------------------------------------------
(* C3.  The period windows as the specification states them, on calendar   *)
(* dates: the day, the Sunday-to-Saturday week, the month and the year     *)
(* that contain today.                                                     *)

Today == DateOfDay(LocalDay(now))

InCurrentPeriod(date, period) ==
    CASE period = "daily"   -> date = Today
      [] period = "weekly"  ->
            LET sunday == DayNumber(Today) - ((DayNumber(Today) + 4) % 7)
            IN  DayNumber(date) \in sunday..(sunday + 6)
      [] period = "monthly" -> date[1] = Today[1] /\ date[2] = Today[2]
      [] period = "yearly"  -> date[1] = Today[1]

LedgerSpent(budget) ==
    SumAmounts(SelectSeq(transactions, LAMBDA t :
        /\ t.type = "expense"
        /\ toLowerCase(t.category) = toLowerCase(budget.category)
        /\ InCurrentPeriod(t.date, budget.period)))

BudgetOf(status) == budgets[findIndex(budgets, status.budgetId)]

\* C3: the spent value getBudgetStatus reports for a budget is the sum of the amounts
\* of exactly the ledger's expenses of the budget's category (compared without case)
\* dated within the current day, week, month or year of the budget's period, whatever
\* the stored Budget.spent field holds and whatever was queried before.
C3_SpentIsLedgerSum ==
    result.op = "getBudgetStatus" =>
        \A i \in 1..Len(result.data) :
            result.data[i].spent = LedgerSpent(BudgetOf(result.data[i]))

----------------------------------------------------------------------------
(* SpecAlerts: several budgets over one category, with the limits,         *)
(* thresholds and active flags that createBudget and updateBudget allow.   *)

MaxAlertTransactions == 2
MaxAlertBudgets == 2

AlertTransactionInputs ==
    [type : {"expense"}, amount : {2, 3}, category : {"Food & Dining"},
     description : {"lunch"}, date : {<<2023, 12, 31>>}]

AlertBudgetInputs ==
    {[name |-> "B", category |-> "Food & Dining", limit |-> 5, period |-> "monthly"],
     [name |-> "B", category |-> "Food & Dining", limit |-> 5, period |-> "monthly",
      alertThreshold |-> 50]}

AlertBudgetUpdates == {[isActive |-> FALSE], [limit |-> 0], [alertThreshold |-> 0]}

NextAlerts ==
    \/ \E data \in AlertTransactionInputs :
          Len(transactions) < MaxAlertTransactions /\ addTransaction(data)
    \/ \E id \in Ids(transactions) : deleteTransaction(id)
    \/ \E data \in AlertBudgetInputs : Len(budgets) < MaxAlertBudgets /\ createBudget(data)
    \/ \E id \in Ids(budgets), updates \in AlertBudgetUpdates : updateBudget(id, updates)
    \/ \E id \in Ids(budgets) : deleteBudget(id)
    \/ \E budgetId \in {<<>>} \cup {<<id>> : id \in Ids(budgets)} :
          Query_getBudgetStatus(budgetId)
    \/ Query_checkBudgetAlerts

SpecAlerts == InitBudget /\ [][NextAlerts]_vars

\* percentageUsed >= k as the specification defines percentageUsed:
\* spent / limit * 100, and 0 when limit <= 0.
PercentageAtLeast(spent, limit, k) ==
    IF limit > 0 THEN spent * 100 >= k * limit ELSE 0 >= k

\* C1: every status getBudgetStatus returns is 'exceeded' exactly when percentageUsed
\* >= 100, 'warning' exactly when alertThreshold*100 <= percentageUsed < 100, and
\* 'under' otherwise, with percentageUsed = spent/limit*100 (0 when limit <= 0).
C1_StatusClassification ==
    result.op = "getBudgetStatus" =>
        \A i \in 1..Len(result.data) :
            LET s == result.data[i]
                b == BudgetOf(s)
                over == PercentageAtLeast(s.spent, b.limit, 100)
                alert == PercentageAtLeast(s.spent, b.limit, b.alertThreshold)
            IN  /\ s.percentageUsed.den > 0
                /\ \A k \in {b.alertThreshold, 100} :
                      AtLeast(s.percentageUsed, k) <=> PercentageAtLeast(s.spent, b.limit, k)
                /\ (s.status = "exceeded") <=> over
                /\ (s.status = "warning") <=> (alert /\ ~over)
                /\ (s.status = "under") <=> (~alert /\ ~over)

\* C1 witness: one call reports two budgets with the same spending below the limit,
\* the one whose threshold is reached as warning and the other as under.
C1_Witness ==
    /\ result.op = "getBudgetStatus"
    /\ \E i, j \in 1..Len(result.data) :
          /\ result.data[i].status = "warning"
          /\ result.data[j].status = "under"
          /\ result.data[i].spent = result.data[j].spent
          /\ result.data[i].spent > 0
          /\ result.data[i].spent < result.data[i].limit
          /\ result.data[j].limit = result.data[i].limit

\* C2: the remaining every status reports is max(0, limit - spent), never negative,
\* also when the budget is exceeded.
C2_RemainingClamped ==
    result.op = "getBudgetStatus" =>
        \A i \in 1..Len(result.data) :
            LET s == result.data[i]
                b == BudgetOf(s)
            IN  /\ s.remaining >= 0
                /\ s.remaining = (IF b.limit - s.spent > 0 THEN b.limit - s.spent ELSE 0)

\* C2 witness: a budget overspent (spent > limit) reports remaining 0.
C2_Witness ==
    /\ result.op = "getBudgetStatus"
    /\ \E i \in 1..Len(result.data) :
          /\ result.data[i].spent > result.data[i].limit
          /\ result.data[i].limit > 0
          /\ result.data[i].remaining = 0

AlertsFor(alerts, id) == {i \in 1..Len(alerts) : alerts[i].budget.id = id}

\* C8: checkBudgetAlerts returns exactly one alert for each active budget whose status
\* is 'warning' or 'exceeded', none for a budget that is inactive or 'under', and each
\* alert carries its budget as stored and the status computed in that call.
C8_OneAlertPerBudget ==
    result.op = "checkBudgetAlerts" =>
        /\ \A j \in 1..Len(budgets) :
              Cardinality(AlertsFor(result.data, budgets[j].id)) =
                  (IF /\ budgets[j].isActive
                      /\ calculateBudgetStatus(budgets[j]).status \in {"warning", "exceeded"}
                   THEN 1 ELSE 0)
        /\ \A i \in 1..Len(result.data) :
              /\ \E j \in 1..Len(budgets) : budgets[j] = result.data[i].budget
              /\ result.data[i].status = calculateBudgetStatus(result.data[i].budget)
              /\ result.data[i].status.status \in {"warning", "exceeded"}

\* C8 witness: of two overspent budgets, one switched off, only the active one alerts.
C8_Witness ==
    /\ result.op = "checkBudgetAlerts"
    /\ Len(budgets) = 2
    /\ Len(result.data) = 1
    /\ \E j \in 1..2 :
          /\ ~budgets[j].isActive
          /\ calculateBudgetStatus(budgets[j]).status = "exceeded"

----------------------------------------------------------------------------
(* GoalsService: goals and their contribution ledger.                      *)

\* The SavingsGoal createGoal builds: data.currentAmount || 0, no ledger entry yet.
newGoal(data) ==
    Merge([id            |-> uuidv4(goals),
           name          |-> data.name,
           targetAmount  |-> data.targetAmount,
           currentAmount |-> IF Has(data, "currentAmount") THEN data.currentAmount ELSE 0,
           priority      |-> IF Has(data, "priority") THEN data.priority ELSE "medium",
           contributions |-> <<>>,
           isCompleted   |-> FALSE,
           createdAt     |-> now],
          IF Has(data, "deadline") THEN [deadline |-> data.deadline] ELSE <<>>)

createGoal(data) ==
    IF ~validateGoal(data).valid
    THEN /\ result' = Failure("createGoal", "Validation failed", validateGoal(data).errors)
         /\ UNCHANGED <<transactions, budgets, goals, categories, insights, initialized, now, tz, running>>
    ELSE /\ goals' = Append(goals, newGoal(data))
         /\ result' = Success("createGoal", newGoal(data))
         /\ UNCHANGED <<transactions, budgets, categories, insights, initialized, now, tz, running>>

updateGoal(id, updates) ==
    IF findIndex(goals, id) = 0
    THEN /\ result' = Failure("updateGoal", "Goal not found", id)
         /\ UNCHANGED <<transactions, budgets, goals, categories, insights, initialized, now, tz, running>>
    ELSE /\ goals' = storageUpdate(goals, id, updates)
         /\ result' = Success("updateGoal", goals'[findIndex(goals, id)])
         /\ UNCHANGED <<transactions, budgets, categories, insights, initialized, now, tz, running>>

deleteGoal(id) ==
    IF findIndex(goals, id) = 0
    THEN /\ result' = Failure("deleteGoal", "Failed to delete", "Goal not found")
         /\ UNCHANGED <<transactions, budgets, goals, categories, insights, initialized, now, tz, running>>
    ELSE /\ goals' = splice(goals, findIndex(goals, id))
         /\ result' = Success("deleteGoal", id)
         /\ UNCHANGED <<transactions, budgets, categories, insights, initialized, now, tz, running>>

getGoalById(id) == goals[findIndex(goals, id)]

\* One ledger entry: deposits positive, withdrawals negative.
newContribution(goal, amount) ==
    [id |-> Len(goal.contributions) + 1, amount |-> amount, date |-> toISODate(now)]

addContribution(goalId, amount) ==
    IF findIndex(goals, goalId) = 0
    THEN /\ result' = Failure("addContribution", "Goal not found", goalId)
         /\ UNCHANGED <<transactions, budgets, goals, categories, insights, initialized, now, tz, running>>
    ELSE IF amount <= 0
    THEN /\ result' = Failure("addContribution", "Invalid amount", "Contribution must be positive")
         /\ UNCHANGED <<transactions, budgets, goals, categories, insights, initialized, now, tz, running>>
    ELSE LET goal == getGoalById(goalId)
             newCurrentAmount == goal.currentAmount + amount
         IN  /\ goals' = storageUpdate(goals, goalId,
                            [currentAmount |-> newCurrentAmount,
                             isCompleted   |-> newCurrentAmount >= goal.targetAmount,
                             contributions |-> Append(goal.contributions,
                                                      newContribution(goal, amount))])
             /\ result' = Success("addContribution", goals'[findIndex(goals, goalId)])
             /\ UNCHANGED <<transactions, budgets, categories, insights, initialized, now, tz, running>>

\* Variant of withdrawFromGoal that pays out without looking at the balance.
withdrawFromGoal_overdraw(goalId, amount) ==
    IF findIndex(goals, goalId) = 0 \/ amount <= 0
    THEN /\ result' = Failure("withdrawFromGoal", "Invalid amount", "Withdrawal must be positive")
         /\ UNCHANGED <<transactions, budgets, goals, categories, insights, initialized, now, tz, running>>
    ELSE LET goal == getGoalById(goalId)
         IN  /\ goals' = storageUpdate(goals, goalId,
                            [currentAmount |-> goal.currentAmount - amount,
                             isCompleted   |-> FALSE,
                             contributions |-> Append(goal.contributions,
                                                      newContribution(goal, 0 - amount))])
             /\ result' = Success("withdrawFromGoal", goals'[findIndex(goals, goalId)])
             /\ UNCHANGED <<transactions, budgets, categories, insights, initialized, now, tz, running>>

withdrawFromGoal(goalId, amount) ==
    IF findIndex(goals, goalId) = 0
    THEN /\ result' = Failure("withdrawFromGoal", "Goal not found", goalId)
         /\ UNCHANGED <<transactions, budgets, goals, categories, insights, initialized, now, tz, running>>
    ELSE IF amount <= 0
    THEN /\ result' = Failure("withdrawFromGoal", "Invalid amount", "Withdrawal must be positive")
         /\ UNCHANGED <<transactions, budgets, goals, categories, insights, initialized, now, tz, running>>
    ELSE IF amount > getGoalById(goalId).currentAmount
    THEN /\ result' = Failure("withdrawFromGoal", "Insufficient funds",
                              getGoalById(goalId).currentAmount)
         /\ UNCHANGED <<transactions, budgets, goals, categories, insights, initialized, now, tz, running>>
    ELSE LET goal == getGoalById(goalId)
             newCurrentAmount == goal.currentAmount - amount
         IN  /\ goals' = storageUpdate(goals, goalId,
                            [currentAmount |-> newCurrentAmount,
                             isCompleted   |-> FALSE,
                             contributions |-> Append(goal.contributions,
                                                      newContribution(goal, 0 - amount))])
             /\ result' = Success("withdrawFromGoal", goals'[findIndex(goals, goalId)])
             /\ UNCHANGED <<transactions, budgets, categories, insights, initialized, now, tz, running>>

----------------------------------------------------------------------------
(* SpecGoals: goals created with and without an opening balance, deposits  *)
(* and withdrawals of valid, non-positive and over-balance amounts.        *)

MaxGoals == 2
MaxContributions == 2

GoalInputs ==
    {[name |-> "G", targetAmount |-> 2],
     [name |-> "G", targetAmount |-> 2, currentAmount |-> 1],
     [name |-> "G", targetAmount |-> 0],
     [name |-> "G", targetAmount |-> 2, currentAmount |-> -1]}

ContributionAmounts == {0, 1, 3}
WithdrawalAmounts == {0, 1, 2}

\* The ids a caller may pass: those of the stored goals and one that names none.
GoalIdInputs == Ids(goals) \cup {0}

LedgerHasRoom(goalId) ==
    findIndex(goals, goalId) # 0 => Len(getGoalById(goalId).contributions) < MaxContributions

NextGoals ==
    \/ \E data \in GoalInputs : Len(goals) < MaxGoals /\ createGoal(data)
    \/ \E id \in GoalIdInputs : deleteGoal(id)
    \/ \E goalId \in GoalIdInputs, amount \in ContributionAmounts :
          LedgerHasRoom(goalId) /\ addContribution(goalId, amount)
    \/ \E goalId \in GoalIdInputs, amount \in WithdrawalAmounts :
          LedgerHasRoom(goalId) /\ withdrawFromGoal(goalId, amount)

SpecGoals == InitBudget /\ [][NextGoals]_vars

\* C4: for every goal reached by createGoal followed by addContribution and
\* withdrawFromGoal calls, currentAmount equals the sum of the signed amounts of the
\* entries of its contributions list.
C4_CurrentAmountIsLedgerSum ==
    \A i \in 1..Len(goals) : goals[i].currentAmount = SumAmounts(goals[i].contributions)

\* C5: after every successful addContribution or withdrawFromGoal the goal handed back
\* has isCompleted true exactly when currentAmount >= targetAmount.
C5_CompletedIffTargetReached ==
    (result.op \in {"addContribution", "withdrawFromGoal"} /\ result.success) =>
        (result.data.isCompleted <=> result.data.currentAmount >= result.data.targetAmount)

\* C7: a withdrawal of more than the goal's currentAmount is rejected with
\* 'Insufficient funds' and changes no goal, and the currentAmount of every goal reached
\* by validated createGoal, addContribution and withdrawFromGoal calls is >= 0.
C7_NoOverdraw ==
    /\ [](\A i \in 1..Len(goals) : goals[i].currentAmount >= 0)
    /\ [][\A goalId \in Ids(goals), amount \in WithdrawalAmounts :
             (withdrawFromGoal(goalId, amount) /\ amount > getGoalById(goalId).currentAmount)
                 => /\ result'.success = FALSE
                    /\ result'.message = "Insufficient funds"
                    /\ goals' = goals]_vars

\* C7 witness: a withdrawal from a goal that holds money was turned down for
\* insufficient funds.
C7_Witness ==
    /\ result.op = "withdrawFromGoal"
    /\ result.success = FALSE
    /\ result.message = "Insufficient funds"
    /\ result.error > 0
    /\ \E i \in 1..Len(goals) : goals[i].currentAmount = result.error

----------------------------------------------------------------------------
(* AnalyticsEngine: trend series.                                          *)

\* start.setDate(start.getDate() - days): the same local time, days earlier.
subDays(instant, days) == instant - days * HoursPerDay

\* subMonths(date, months): the same local time on the same day of the earlier month,
\* or on that month's last day when it is shorter.
subMonths(instant, months) ==
    LET d      == DateOfDay(LocalDay(instant))
        index  == d[1] * 12 + (d[2] - 1) - months
        y      == index \div 12
        m      == (index % 12) + 1
        day    == IF d[3] <= getDaysInMonth(y, m) THEN d[3] ELSE getDaysInMonth(y, m)
    IN  LocalDayStart(DayNumber(<<y, m, day>>)) + (instant - startOfDay(instant))

\* eachDayOfInterval: the local midnights from the start's day to the end's day.
eachDayOfInterval(interval) ==
    [i \in 1..(LocalDay(interval.end) - LocalDay(interval.start) + 1) |->
        LocalDayStart(LocalDay(interval.start) + i - 1)]

\* eachWeekOfInterval: the week starts from the start's week to the end's week.
eachWeekOfInterval(interval) ==
    [i \in 1..((LocalDay(startOfWeek(interval.end))
                - LocalDay(startOfWeek(interval.start))) \div 7 + 1) |->
        LocalDayStart(LocalDay(startOfWeek(interval.start)) + 7 * (i - 1))]

\* The number of a local month counted from year 0.
MonthIndex(instant) ==
    LET d == DateOfDay(LocalDay(instant)) IN d[1] * 12 + (d[2] - 1)

\* eachMonthOfInterval: the month starts from the start's month to the end's month.
eachMonthOfInterval(interval) ==
    [i \in 1..(MonthIndex(interval.end) - MonthIndex(interval.start) + 1) |->
        LET index == MonthIndex(interval.start) + i - 1
        IN  LocalDayStart(DayNumber(<<index \div 12, (index % 12) + 1, 1>>))]

\* format(date, 'yyyy-MM-dd') and format(date, 'yyyy-MM'): the local calendar date.
formatDay(instant) == DateOfDay(LocalDay(instant))
formatMonth(instant) == <<formatDay(instant)[1], formatDay(instant)[2]>>

TotalOf(txs, type) == SumAmounts(SelectSeq(txs, LAMBDA t : t.type = type))

\* One TrendData point over the transactions of its bucket.
TrendPoint(date, txs) ==
    [date      |-> date,
     expenses  |-> TotalOf(txs, "expense"),
     income    |-> TotalOf(txs, "income"),
     netSavings |-> TotalOf(txs, "income") - TotalOf(txs, "expense")]

getDailyTrends(days) ==
    LET dates == eachDayOfInterval([start |-> subDays(now, days), end |-> now])
        Point(date) ==
            TrendPoint(formatDay(date),
                       SelectSeq(transactions, LAMBDA t : t.date = formatDay(date)))
    IN  MapSeq(dates, Point)

getWeeklyTrends(weeks) ==
    LET weekStarts == eachWeekOfInterval([start |-> subDays(now, weeks * 7), end |-> now])
        Point(weekStart) ==
            TrendPoint(formatDay(weekStart),
                       SelectSeq(transactions, LAMBDA t :
                           isWithinInterval(newDate(t.date),
                               [start |-> weekStart, end |-> endOfWeek(weekStart)])))
    IN  MapSeq(weekStarts, Point)

getMonthlyTrends(months) ==
    LET monthStarts == eachMonthOfInterval([start |-> subMonths(now, months), end |-> now])
        Point(monthStart) ==
            TrendPoint(formatMonth(monthStart),
                       SelectSeq(transactions, LAMBDA t :
                           isWithinInterval(newDate(t.date),
                               [start |-> monthStart, end |-> endOfMonth(monthStart)])))
    IN  MapSeq(monthStarts, Point)

\* A read-side call with an argument: the value handed back, next to the argument.
Called(op, arg, data) == [op |-> op, arg |-> arg, data |-> data]

Query_getDailyTrends(days) ==
    /\ result' = Called("getDailyTrends", days, getDailyTrends(days))
    /\ UNCHANGED <<transactions, budgets, goals, categories, insights, initialized, now, tz, running>>

Query_getWeeklyTrends(weeks) ==
    /\ result' = Called("getWeeklyTrends", weeks, getWeeklyTrends(weeks))
    /\ UNCHANGED <<transactions, budgets, goals, categories, insights, initialized, now, tz, running>>

Query_getMonthlyTrends(months) ==
    /\ result' = Called("getMonthlyTrends", months, getMonthlyTrends(months))
    /\ UNCHANGED <<transactions, budgets, goals, categories, insights, initialized, now, tz, running>>

----------------------------------------------------------------------------
(* SpecTrends: trend series of every span up to MaxSpan over ledgers of up *)
(* to MaxTrendTransactions entries, the empty one included.                *)

MaxSpan == 3
MaxTrendTransactions == 2

NextTrends ==
    \/ \E data \in TransactionInputs :
          Len(transactions) < MaxTrendTransactions /\ addTransaction(data)
    \/ \E id \in Ids(transactions) : deleteTransaction(id)
    \/ \E days \in 1..MaxSpan : Query_getDailyTrends(days)
    \/ \E weeks \in 1..MaxSpan : Query_getWeeklyTrends(weeks)
    \/ \E months \in 1..MaxSpan : Query_getMonthlyTrends(months)
    \/ Tick

SpecTrends == InitBudget /\ [][NextTrends]_vars

TrendOps == {"getDailyTrends", "getWeeklyTrends", "getMonthlyTrends"}

\* C6: getDailyTrends(n), getWeeklyTrends(n) and getMonthlyTrends(n) each return
\* exactly n trend points for every span n >= 1 and every ledger, the empty one
\* included, and with an empty ledger every point is zero-filled.
C6_ExactlySpanPoints ==
    result.op \in TrendOps =>
        /\ Len(result.data) = result.arg
        /\ transactions = <<>> =>
              \A i \in 1..Len(result.data) :
                  /\ result.data[i].expenses = 0
                  /\ result.data[i].income = 0
                  /\ result.data[i].netSavings = 0

----------------------------------------------------------------------------
(* llm-parser.ts: the rule-based natural-language parser.  A value that    *)
(* may be null is <<>> for null and <<v>> for v.                           *)

\* const x = v; ... x ...: the value v under the name the body F gives it.
With(v, F(_)) == F(v)

Digits == <<"0", "1", "2", "3", "4", "5", "6", "7", "8", "9">>

\* \d, \s, \w and the characters of the amount group [\d,]
isDigit(c) == \E k \in 1..Len(Digits) : Digits[k] = c
isSpace(c) == c \in {" ", "\t", "\n"}
isWordChar(c) == isDigit(c) \/ c = "_" \/ c \in DOMAIN LowerOf \/ c \in DOMAIN UpperOf
isGroupChar(c) == isDigit(c) \/ c = ","

DigitValue(c) == (CHOOSE k \in 1..Len(Digits) : Digits[k] = c) - 1

\* The last position of the longest run of characters satisfying P that starts at i
\* (i - 1 when there is none): what a greedy P+ or P* consumes.
RunEnd(s, i, P(_)) ==
    LET RECURSIVE scan(_)
        scan(j) == IF P(Char(s, j + 1)) THEN scan(j + 1) ELSE j
    IN  scan(i - 1)

\* The smallest position satisfying M, in <<>> form: where a regular expression
\* finds its leftmost match.
Leftmost(s, M(_)) ==
    LET RECURSIVE scan(_)
        scan(i) == IF i > Len(s) THEN <<>> ELSE IF M(i) THEN <<i>> ELSE scan(i + 1)
    IN  scan(1)

\* input.trim()
trim(s) ==
    IF \A i \in 1..Len(s) : isSpace(Char(s, i)) THEN ""
    ELSE SubSeq(s, CHOOSE i \in 1..Len(s) :
                       ~isSpace(Char(s, i)) /\ \A j \in 1..(i - 1) : isSpace(Char(s, j)),
                   CHOOSE i \in 1..Len(s) :
                       ~isSpace(Char(s, i)) /\ \A j \in (i + 1)..Len(s) : isSpace(Char(s, j)))

\* parseInt of a string of digits, commas skipped (replace(/,/g, '')).
RECURSIVE parseDigits(_)
parseDigits(s) ==
    IF s = "" THEN 0
    ELSE IF Char(s, Len(s)) = "," THEN parseDigits(SubSeq(s, 1, Len(s) - 1))
    ELSE parseDigits(SubSeq(s, 1, Len(s) - 1)) * 10 + DigitValue(Char(s, Len(s)))

EXPENSE_KEYWORDS ==
    {"spent", "paid", "bought", "purchased", "cost", "charged",
     "expense", "bill", "payment", "subscription", "fee"}

INCOME_KEYWORDS ==
    {"received", "earned", "got", "income", "salary", "wage",
     "payment from", "refund", "bonus", "commission", "dividend"}

\* A variant of typeOf that lets the income keywords win a tie.
typeOf_incomeOnTie(input, hasExpense, hasIncome) ==
    IF hasIncome THEN <<"income">>
    ELSE IF hasExpense THEN <<"expense">>
    ELSE IF includes(input, "from") THEN <<"income">>
    ELSE IF includes(input, "on") \/ includes(input, "for") THEN <<"expense">>
    ELSE <<>>

\* The decision of determineTransactionType once both keyword lists have been tried.
typeOf(input, hasExpense, hasIncome) ==
    IF hasIncome /\ ~hasExpense THEN <<"income">>
    ELSE IF hasExpense /\ ~hasIncome THEN <<"expense">>
    ELSE IF hasExpense /\ hasIncome THEN <<"expense">>
    ELSE IF includes(input, "from") THEN <<"income">>
    ELSE IF includes(input, "on") \/ includes(input, "for") THEN <<"expense">>
    ELSE <<>>

determineTransactionType(input) ==
    typeOf(input, \E kw \in EXPENSE_KEYWORDS : includes(input, kw),
                  \E kw \in INCOME_KEYWORDS : includes(input, kw))

\* The amount group ([\d,]+(?:\.\d{2})?) matched from position from: its run of digits
\* and commas ends at to, and cents tells whether '.dd' follows and is taken.
hasCents(s, to) == Char(s, to + 1) = "." /\ isDigit(Char(s, to + 2)) /\ isDigit(Char(s, to + 3))

Group(from, to, cents) == [from |-> from, to |-> to, cents |-> cents]

\* The group at position from with nothing required after it.
groupAt(s, from) ==
    With(RunEnd(s, from, isGroupChar), LAMBDA to : Group(from, to, hasCents(s, to)))

\* \s*(?:w1|w2|...) matches from position p.
suffixAt(s, p, words) ==
    With(RunEnd(s, p, isSpace) + 1, LAMBDA q : \E w \in words : startsWithAt(s, q, w))

\* The group at position from followed by \s* and one of the words: with the cents
\* when that matches, otherwise without them.
groupBefore(s, from, words) ==
    IF ~isGroupChar(Char(s, from)) THEN <<>>
    ELSE With(RunEnd(s, from, isGroupChar), LAMBDA to :
             IF hasCents(s, to) /\ suffixAt(s, to + 4, words) THEN <<Group(from, to, TRUE)>>
             ELSE IF suffixAt(s, to + 1, words) THEN <<Group(from, to, FALSE)>>
             ELSE <<>>)

\* The leftmost match of ([\d,]+(?:\.\d{2})?)\s*(?:w1|w2|...).
leftmostGroupBefore(s, words) ==
    With(Leftmost(s, LAMBDA i : groupBefore(s, i, words) # <<>>), LAMBDA m :
        IF m = <<>> THEN <<>> ELSE groupBefore(s, m[1], words))

\* Where the group starts after \$\s* matched at position i.
afterDollar(s, i) == RunEnd(s, i + 1, isSpace) + 1

\* The leftmost match of \$\s*([\d,]+(?:\.\d{2})?).
leftmostDollarFirst(s) ==
    With(Leftmost(s, LAMBDA i : Char(s, i) = "$" /\ isGroupChar(Char(s, afterDollar(s, i)))),
         LAMBDA m : IF m = <<>> THEN <<>> ELSE <<groupAt(s, afterDollar(s, m[1]))>>)

AmountVerbs == {"spent", "paid", "received", "got", "earned"}

\* Where the group starts after (?:spent|paid|received|got|earned)\s*\$?\s* matched at
\* position i; 0 when no verb stands at i.
afterVerb(s, i) ==
    IF \A v \in AmountVerbs : ~startsWithAt(s, i, v) THEN 0
    ELSE With(RunEnd(s, i + Len(CHOOSE v \in AmountVerbs : startsWithAt(s, i, v)), isSpace) + 1,
              LAMBDA q : IF Char(s, q) = "$" THEN RunEnd(s, q + 1, isSpace) + 1 ELSE q)

\* The leftmost match of (?:spent|...|earned)\s*\$?\s*([\d,]+(?:\.\d{2})?).
leftmostAfterVerb(s) ==
    With(Leftmost(s, LAMBDA i : isGroupChar(Char(s, afterVerb(s, i)))), LAMBDA m :
        IF m = <<>> THEN <<>> ELSE <<groupAt(s, afterVerb(s, m[1]))>>)

\* The fallback /(\d+(?:\.\d{2})?)/: the first run of digits.
anyNumber(s) ==
    With(Leftmost(s, LAMBDA i : isDigit(Char(s, i))), LAMBDA m :
        IF m = <<>> THEN <<>>
        ELSE With(RunEnd(s, m[1], isDigit), LAMBDA to : <<Group(m[1], to, hasCents(s, to))>>))

\* parseFloat of a matched group with its commas removed, in cents; <<>> is NaN and
\* stands for 'no match' too.
parseFloat(s, match) ==
    IF match = <<>> THEN <<>>
    ELSE IF /\ ~match[1].cents
            /\ \A i \in match[1].from..match[1].to : ~isDigit(Char(s, i))
    THEN <<>>
    ELSE <<parseDigits(SubSeq(s, match[1].from, match[1].to)) * 100
           + (IF match[1].cents
              THEN parseDigits(SubSeq(s, match[1].to + 2, match[1].to + 3)) ELSE 0)>>

\* The number each pattern of extractAmount yields, in the order they are tried, the
\* fallback last.
amountCandidates(s) ==
    << parseFloat(s, leftmostDollarFirst(s)),
       parseFloat(s, leftmostGroupBefore(s, {"$"})),
       parseFloat(s, leftmostGroupBefore(s, {"dollar", "usd", "bucks"})),
       parseFloat(s, leftmostAfterVerb(s)),
       parseFloat(s, leftmostGroupBefore(s, {"for", "on"})),
       parseFloat(s, anyNumber(s)) >>

\* The first candidate that is a number (!isNaN) and > 0.
firstPositive(candidates) ==
    IF \A k \in 1..Len(candidates) : candidates[k] = <<>> \/ candidates[k][1] <= 0 THEN <<>>
    ELSE candidates[CHOOSE k \in 1..Len(candidates) :
                        /\ candidates[k] # <<>> /\ candidates[k][1] > 0
                        /\ \A j \in 1..(k - 1) : candidates[j] = <<>> \/ candidates[j][1] <= 0]

extractAmount(input) == firstPositive(amountCandidates(input))

\* CATEGORY_KEYWORDS in the order Object.entries lists it.
CATEGORY_KEYWORDS ==
    << [category |-> "Food & Dining",
        keywords |-> {"food", "groceries", "grocery", "restaurant", "dinner", "lunch",
                      "breakfast", "coffee", "meal", "eating", "snack"}],
       [category |-> "Transportation",
        keywords |-> {"uber", "lyft", "taxi", "gas", "fuel", "bus", "train", "metro",
                      "parking", "car", "transport", "ride"}],
       [category |-> "Shopping",
        keywords |-> {"shopping", "clothes", "clothing", "amazon", "store", "mall",
                      "shoes", "purchase"}],
       [category |-> "Bills & Utilities",
        keywords |-> {"bill", "electricity", "electric", "water", "internet", "phone",
                      "utility", "utilities", "rent", "mortgage"}],
       [category |-> "Entertainment",
        keywords |-> {"movie", "netflix", "spotify", "gaming", "concert", "entertainment",
                      "show", "theater", "music"}],
       [category |-> "Health & Fitness",
        keywords |-> {"gym", "health", "medicine", "doctor", "pharmacy", "fitness",
                      "workout", "medical", "hospital"}],
       [category |-> "Education",
        keywords |-> {"education", "course", "book", "books", "training", "school",
                      "tuition", "class"}],
       [category |-> "Subscriptions",
        keywords |-> {"subscription", "monthly", "premium", "membership", "annual"}],
       [category |-> "Salary",
        keywords |-> {"salary", "wage", "paycheck", "pay"}],
       [category |-> "Freelance",
        keywords |-> {"freelance", "gig", "contract", "client", "project"}],
       [category |-> "Investments",
        keywords |-> {"dividend", "interest", "investment", "stock", "crypto"}] >>

\* The table rows with a keyword in the text, as their positions in the table.
matchingCategories(input) ==
    {k \in 1..Len(CATEGORY_KEYWORDS) :
        \E kw \in CATEGORY_KEYWORDS[k].keywords : includes(input, kw)}

\* A variant of extractCategory that returns the last matching row of the table.
extractCategory_lastMatch(input) ==
    With(matchingCategories(input), LAMBDA hits :
        IF hits = {} THEN "Other Expenses"
        ELSE CATEGORY_KEYWORDS[CHOOSE k \in hits : \A j \in hits : k >= j].category)

extractCategory(input) ==
    With(matchingCategories(input), LAMBDA hits :
        IF hits = {} THEN "Other Expenses"
        ELSE CATEGORY_KEYWORDS[CHOOSE k \in hits : \A j \in hits : k <= j].category)

\* date.toISOString().split('T')[0]
formatDateISO(instant) == toISODate(instant)

\* today.getFullYear(): the local year.
getFullYear(instant) == DateOfDay(LocalDay(instant))[1]

\* new Date(year, monthIndex, day): local midnight; a month or day out of range rolls
\* over and a year from 0 to 99 is read as 1900 + year.
newLocalDate(year, monthIndex, day) ==
    With((IF year \in 0..99 THEN 1900 + year ELSE year) * 12 + monthIndex, LAMBDA index :
        LocalDayStart(DayNumber(<<index \div 12, (index % 12) + 1, 1>>) + day - 1))

months ==
    <<"january", "february", "march", "april", "may", "june",
      "july", "august", "september", "october", "november", "december">>
shortMonths ==
    <<"jan", "feb", "mar", "apr", "may", "jun", "jul", "aug", "sep", "oct", "nov", "dec">>

\* names.indexOf(name), from 0; -1 when absent.
indexOf(names, name) ==
    IF \E k \in 1..Len(names) : names[k] = name
    THEN (CHOOSE k \in 1..Len(names) : names[k] = name) - 1
    ELSE -1

getMonthIndex(monthName) ==
    With(toLowerCase(monthName), LAMBDA lower :
        IF indexOf(months, lower) # -1 THEN indexOf(months, lower)
        ELSE indexOf(shortMonths, lower))

\* (\w+)\s+(\d{1,2}) matches from position p.
wordThenNumberAt(s, p) ==
    /\ isWordChar(Char(s, p))
    /\ With(RunEnd(s, p, isWordChar), LAMBDA w :
          /\ isSpace(Char(s, w + 1))
          /\ isDigit(Char(s, RunEnd(s, w + 1, isSpace) + 1)))

\* Where the word (\w+) of monthPattern starts when the pattern matches from position i:
\* after an optional 'on' and white space, else at i itself.
monthWordAt(s, i) ==
    IF /\ startsWithAt(s, i, "on")
       /\ isSpace(Char(s, i + 2))
       /\ wordThenNumberAt(s, RunEnd(s, i + 2, isSpace) + 1)
    THEN <<RunEnd(s, i + 2, isSpace) + 1>>
    ELSE IF wordThenNumberAt(s, i) THEN <<i>>
    ELSE <<>>

\* The optional (\d{4}) after a position x: \s*,?\s* and four digits.
yearAfter(s, x) ==
    With(RunEnd(s, x + 1, isSpace) + 1, LAMBDA c :
    With(RunEnd(s, (IF Char(s, c) = "," THEN c + 1 ELSE c), isSpace) + 1, LAMBDA y :
        IF \A k \in 0..3 : isDigit(Char(s, y + k)) THEN <<parseDigits(SubSeq(s, y, y + 3))>>
        ELSE <<>>))

\* The groups of monthPattern matched with the word from p to w and the day from d to
\* dEnd: month name, day, optional year after an optional st/nd/rd/th.
monthGroups(s, p, w, d, dEnd) ==
    <<[monthName |-> SubSeq(s, p, w),
       day       |-> parseDigits(SubSeq(s, d, dEnd)),
       year      |-> yearAfter(s, IF \E o \in {"st", "nd", "rd", "th"} :
                                        startsWithAt(s, dEnd + 1, o)
                                  THEN dEnd + 2 ELSE dEnd)]>>

\* The groups of the leftmost match of monthPattern.
monthMatch(s) ==
    With(Leftmost(s, LAMBDA i : monthWordAt(s, i) # <<>>), LAMBDA m :
        IF m = <<>> THEN <<>>
        ELSE With(monthWordAt(s, m[1])[1], LAMBDA p :
             With(RunEnd(s, p, isWordChar), LAMBDA w :
             With(RunEnd(s, w + 1, isSpace) + 1, LAMBDA d :
                 monthGroups(s, p, w, d, IF isDigit(Char(s, d + 1)) THEN d + 1 ELSE d)))))

isDateSeparator(c) == c \in {"/", "-"}

\* Where the second number of datePattern starts when (\d{1,2})[\/\-](\d{1,2}) matches
\* from position i, <<>> when it does not.
dayStartAt(s, i) ==
    IF ~isDigit(Char(s, i)) THEN <<>>
    ELSE IF isDigit(Char(s, i + 1)) /\ isDateSeparator(Char(s, i + 2)) /\ isDigit(Char(s, i + 3))
    THEN <<i + 3>>
    ELSE IF isDateSeparator(Char(s, i + 1)) /\ isDigit(Char(s, i + 2)) THEN <<i + 2>>
    ELSE <<>>

\* The optional (?:[\/\-](\d{2,4})) after the day ending at dEnd.
yearAfterDay(s, dEnd) ==
    IF ~isDateSeparator(Char(s, dEnd + 1)) THEN <<>>
    ELSE With(RunEnd(s, dEnd + 2, isDigit), LAMBDA yRun :
             IF yRun < dEnd + 3 THEN <<>>
             ELSE <<parseDigits(SubSeq(s, dEnd + 2,
                                       IF yRun > dEnd + 5 THEN dEnd + 5 ELSE yRun))>>)

\* The groups of datePattern matched from i with the day from d to dEnd.
dateGroups(s, i, d, dEnd) ==
    <<[month |-> parseDigits(SubSeq(s, i, d - 2)),
       day   |-> parseDigits(SubSeq(s, d, dEnd)),
       year  |-> yearAfterDay(s, dEnd)]>>

\* The groups of the leftmost match of datePattern: month, day, optional year.
dateMatch(s) ==
    With(Leftmost(s, LAMBDA i : dayStartAt(s, i) # <<>>), LAMBDA m :
        IF m = <<>> THEN <<>>
        ELSE With(dayStartAt(s, m[1])[1], LAMBDA d :
                 dateGroups(s, m[1], d, IF isDigit(Char(s, d + 1)) THEN d + 1 ELSE d)))

\* A variant of cueOf that tries the month-name pattern before the relative keywords.
cueOf_monthFirst(input, mm, dm) ==
    IF mm # <<>> /\ getMonthIndex(mm[1].monthName) # -1
    THEN [kind |-> "month", monthIndex |-> getMonthIndex(mm[1].monthName),
          day |-> mm[1].day, year |-> mm[1].year]
    ELSE IF includes(input, "today") THEN [kind |-> "today"]
    ELSE IF includes(input, "yesterday") THEN [kind |-> "yesterday"]
    ELSE IF includes(input, "last week") THEN [kind |-> "last week"]
    ELSE IF dm # <<>>
    THEN [kind |-> "numeric", monthIndex |-> dm[1].month - 1,
          day |-> dm[1].day, year |-> dm[1].year]
    ELSE [kind |-> "none"]

\* What extractDate decides from the text and its two pattern matches, before the clock
\* is read: a relative keyword, a month name with its day, a numeric date, or nothing.
cueOf(input, mm, dm) ==
    IF includes(input, "today") THEN [kind |-> "today"]
    ELSE IF includes(input, "yesterday") THEN [kind |-> "yesterday"]
    ELSE IF includes(input, "last week") THEN [kind |-> "last week"]
    ELSE IF mm # <<>> /\ getMonthIndex(mm[1].monthName) # -1
    THEN [kind |-> "month", monthIndex |-> getMonthIndex(mm[1].monthName),
          day |-> mm[1].day, year |-> mm[1].year]
    ELSE IF dm # <<>>
    THEN [kind |-> "numeric", monthIndex |-> dm[1].month - 1,
          day |-> dm[1].day, year |-> dm[1].year]
    ELSE [kind |-> "none"]

dateCue(input) == cueOf(input, monthMatch(input), dateMatch(input))

\* matched year ? parseInt(year) : today.getFullYear()
yearOfCue(cue) == IF cue.year # <<>> THEN cue.year[1] ELSE getFullYear(now)

\* The date extractDate returns for what it found, read against the clock.
dateOfCue(cue) ==
    CASE cue.kind = "today"     -> formatDateISO(now)
      [] cue.kind = "yesterday" -> formatDateISO(subDays(now, 1))
      [] cue.kind = "last week" -> formatDateISO(subDays(now, 7))
      [] cue.kind = "month"     ->
            formatDateISO(newLocalDate(yearOfCue(cue), cue.monthIndex, cue.day))
      [] cue.kind = "numeric"   ->
            formatDateISO(newLocalDate(IF yearOfCue(cue) < 100 THEN yearOfCue(cue) + 2000
                                       ELSE yearOfCue(cue),
                                       cue.monthIndex, cue.day))
      [] OTHER                  -> formatDateISO(now)

extractDate(input) == dateOfCue(dateCue(input))

StopWords == {"spent", "paid", "received", "got", "earned", "bought", "for", "on", "at", "from"}

\* replace(/\b(spent|paid|...|from)\b/gi, ''): whole words of the list are dropped.
RECURSIVE removeStopWords(_, _)
removeStopWords(s, i) ==
    IF i > Len(s) THEN ""
    ELSE IF isWordChar(Char(s, i))
    THEN With(RunEnd(s, i, isWordChar), LAMBDA e :
             (IF toLowerCase(SubSeq(s, i, e)) \in StopWords THEN "" ELSE SubSeq(s, i, e))
             \o removeStopWords(s, e + 1))
    ELSE Char(s, i) \o removeStopWords(s, i + 1)

isMoneyChar(c) == isDigit(c) \/ c = "," \/ c = "."

\* replace(/\$[\d,.]+/g, '')
RECURSIVE removeMoney(_, _)
removeMoney(s, i) ==
    IF i > Len(s) THEN ""
    ELSE IF Char(s, i) = "$" /\ isMoneyChar(Char(s, i + 1))
    THEN removeMoney(s, RunEnd(s, i + 1, isMoneyChar) + 1)
    ELSE Char(s, i) \o removeMoney(s, i + 1)

\* replace(/\s+/g, ' ')
RECURSIVE collapseSpaces(_, _)
collapseSpaces(s, i) ==
    IF i > Len(s) THEN ""
    ELSE IF isSpace(Char(s, i)) THEN " " \o collapseSpaces(s, RunEnd(s, i, isSpace) + 1)
    ELSE Char(s, i) \o collapseSpaces(s, i + 1)

extractDescription(input, category) ==
    With(trim(collapseSpaces(removeMoney(removeStopWords(input, 1), 1), 1)), LAMBDA desc :
        IF desc # "" THEN UpperChar(Char(desc, 1)) \o SubSeq(desc, 2, Len(desc))
        ELSE category)

\* A variant of calculateConfidence that ignores the date.
calculateConfidence_noDateBonus(amount, category, date) ==
    With(5 + (IF amount # <<>> /\ amount[1] > 0 THEN 2 ELSE 0)
           + (IF category # "Other Expenses" THEN 2 ELSE 0),
         LAMBDA confidence : IF confidence > 10 THEN 10 ELSE confidence)

\* Confidence in tenths: 0.5 is 5.
calculateConfidence(amount, category, date) ==
    With(5 + (IF amount # <<>> /\ amount[1] > 0 THEN 2 ELSE 0)
           + (IF category # "Other Expenses" THEN 2 ELSE 0)
           + (IF date # formatDateISO(now) THEN 1 ELSE 0),
         LAMBDA confidence : IF confidence > 10 THEN 10 ELSE confidence)

\* Everything parseNaturalLanguage reads off the normalized text alone.
scanNormalized(normalized, category) ==
    [type        |-> determineTransactionType(normalized),
     amount      |-> extractAmount(normalized),
     category    |-> category,
     description |-> extractDescription(normalized, category),
     cue         |-> dateCue(normalized)]

\* input.toLowerCase().trim() and what is read off it.
scanText(input) ==
    With(trim(toLowerCase(input)), LAMBDA normalized :
        scanNormalized(normalized, extractCategory(normalized)))

\* Texts a caller may hand to addFromNaturalLanguage: two that parse and two that do not
\* (no type cue; a type cue but no amount).
ServiceTexts == {"spent $5 on lunch", "got 7 from mom", "hello world", "paid the bill"}

\* Texts for the parser on its own: every type cue (income only, expense only, both,
\* 'from', 'on', none), amounts present and absent, no, one and two matching categories,
\* relative, month-name and numeric dates alone and together, and a text to normalize.
ParserTexts ==
    {"got 7 from mom", "spent 5", "paid bonus 5", "7 from mom", "5 on lunch",
     "hello world", "hello world 5", "paid the bill",
     "spent 5 yesterday", "spent 5 on lunch yesterday", "bill for lunch 5",
     "jan 15 spent 5", "spent 5 on jan 15", "jan 15 yesterday",
     "spent 5 today", "spent 5 last week", "today 1/2", "spent 5 1/2",
     " Spent $5 on LUNCH "}

\* The texts the specifications hand to the parser, each scanned once with scanText.
Texts == ServiceTexts \cup ParserTexts
Scanned == [input \in Texts |-> scanText(input)]

\* A variant of parsedOf that gives up only when no type was found.
parsedOf_typeOnly(input, scan, date) ==
    IF scan.type = <<>> THEN <<>>
    ELSE <<[type        |-> scan.type[1],
            amount      |-> IF scan.amount = <<>> THEN 0 ELSE scan.amount[1],
            category    |-> scan.category,
            description |-> scan.description,
            date        |-> date,
            confidence  |-> calculateConfidence(scan.amount, scan.category, date),
            rawInput    |-> input]>>

\* The ParsedTransaction built from a scanned text, null without a type or an amount.
parsedOf(input, scan, date) ==
    IF scan.type = <<>> THEN <<>>
    ELSE IF scan.amount = <<>> THEN <<>>
    ELSE <<[type        |-> scan.type[1],
            amount      |-> scan.amount[1],
            category    |-> scan.category,
            description |-> scan.description,
            date        |-> date,
            confidence  |-> calculateConfidence(scan.amount, scan.category, date),
            rawInput    |-> input]>>

parseNaturalLanguage(input) ==
    With(IF input \in Texts THEN Scanned[input] ELSE scanText(input), LAMBDA scan :
        parsedOf(input, scan, dateOfCue(scan.cue)))

----------------------------------------------------------------------------
(* SpecParser: the parser and its extraction steps applied to ParserTexts  *)
(* at every clock value and in every time zone.                            *)

\* const normalized = input.toLowerCase().trim(), for every text.
NormalizedTexts == {trim(toLowerCase(input)) : input \in ParserTexts}

Query_parseNaturalLanguage(input) ==
    /\ result' = Called("parseNaturalLanguage", input, parseNaturalLanguage(input))
    /\ UNCHANGED <<transactions, budgets, goals, categories, insights, initialized, now, tz, running>>

Query_determineTransactionType(input) ==
    /\ result' = Called("determineTransactionType", input, determineTransactionType(input))
    /\ UNCHANGED <<transactions, budgets, goals, categories, insights, initialized, now, tz, running>>

Query_extractCategory(input) ==
    /\ result' = Called("extractCategory", input, extractCategory(input))
    /\ UNCHANGED <<transactions, budgets, goals, categories, insights, initialized, now, tz, running>>

Query_extractDate(input) ==
    /\ result' = Called("extractDate", input, extractDate(input))
    /\ UNCHANGED <<transactions, budgets, goals, categories, insights, initialized, now, tz, running>>

NextParser ==
    \/ \E input \in ParserTexts : Query_parseNaturalLanguage(input)
    \/ \E input \in NormalizedTexts : Query_determineTransactionType(input)
    \/ \E input \in NormalizedTexts : Query_extractCategory(input)
    \/ \E input \in NormalizedTexts : Query_extractDate(input)
    \/ Tick

SpecParser == InitBudget /\ [][NextParser]_vars

\* C11: parseNaturalLanguage returns null if and only if type detection finds no type
\* or amount extraction finds no amount over the normalized text; every record it
\* returns carries a category and a date.
C11_NullIffNoTypeOrNoAmount ==
    result.op = "parseNaturalLanguage" =>
        /\ result.data = <<>> <=>
              \/ determineTransactionType(trim(toLowerCase(result.arg))) = <<>>
              \/ extractAmount(trim(toLowerCase(result.arg))) = <<>>
        /\ result.data # <<>> =>
              /\ result.data[1].category # ""
              /\ Len(result.data[1].date) = 3

\* C11 witness: a text with a type cue and no amount has just come back as null.
C11_Witness ==
    /\ result.op = "parseNaturalLanguage"
    /\ result.data = <<>>
    /\ determineTransactionType(trim(toLowerCase(result.arg))) # <<>>

\* A keyword of the list occurs in the text.
AnyKeyword(text, keywords) == \E kw \in keywords : includes(text, kw)

\* C12: only income keywords give income, only expense keywords give expense, both give
\* expense; with neither, 'from' gives income, else 'on' or 'for' gives expense, else no
\* type is returned.
C12_TypeDetection ==
    result.op = "determineTransactionType" =>
        result.data =
            CASE AnyKeyword(result.arg, INCOME_KEYWORDS)
                    /\ ~AnyKeyword(result.arg, EXPENSE_KEYWORDS)       -> <<"income">>
              [] AnyKeyword(result.arg, EXPENSE_KEYWORDS)              -> <<"expense">>
              [] includes(result.arg, "from")                          -> <<"income">>
              [] includes(result.arg, "on") \/ includes(result.arg, "for") -> <<"expense">>
              [] OTHER                                                 -> <<>>

\* C12 witness: a text with keywords of both lists has been typed as an expense.
C12_Witness ==
    /\ result.op = "determineTransactionType"
    /\ AnyKeyword(result.arg, INCOME_KEYWORDS)
    /\ AnyKeyword(result.arg, EXPENSE_KEYWORDS)
    /\ result.data = <<"expense">>

C14_TableOrder ==
    <<"Food & Dining", "Transportation", "Shopping", "Bills & Utilities", "Entertainment",
      "Health & Fitness", "Education", "Subscriptions", "Salary", "Freelance", "Investments">>

\* The places in C14_TableOrder of the categories with a keyword in the text.
C14_Matching(text) ==
    {k \in 1..Len(C14_TableOrder) :
        \E r \in 1..Len(CATEGORY_KEYWORDS) :
            /\ CATEGORY_KEYWORDS[r].category = C14_TableOrder[k]
            /\ AnyKeyword(text, CATEGORY_KEYWORDS[r].keywords)}

\* C14: extractCategory returns the first category in table order with a keyword that
\* is a substring of the text, and 'Other Expenses' when no keyword matches.
C14_FirstCategoryInTableOrder ==
    result.op = "extractCategory" =>
        IF C14_Matching(result.arg) = {} THEN result.data = "Other Expenses"
        ELSE \E k \in C14_Matching(result.arg) :
                /\ \A j \in C14_Matching(result.arg) : k <= j
                /\ result.data = C14_TableOrder[k]

\* C14 witness: a text with keywords of two categories, the later one's first in the
\* text, has been given the earlier category of the table.
C14_Witness ==
    /\ result.op = "extractCategory"
    /\ result.arg = "bill for lunch 5"
    /\ C14_Matching(result.arg) = {1, 4}
    /\ result.data = "Food & Dining"

\* A relative keyword occurs in the text.
HasRelativeCue(text) ==
    includes(text, "today") \/ includes(text, "yesterday") \/ includes(text, "last week")

\* The <<month, day>> of every month name (full or 3-letter, a word of its own)
\* followed by a day number in the text.
MonthPhrases(text) ==
    {<<ki[1], parseDigits(SubSeq(text, ki[3], IF isDigit(Char(text, ki[3] + 1))
                                               THEN ki[3] + 1 ELSE ki[3]))>> :
        ki \in {x \in (1..12) \X (1..Len(text)) \X (1..Len(text)) :
                  \E name \in {months[x[1]], shortMonths[x[1]]} :
                      /\ x[2] = 1 \/ ~isWordChar(Char(text, x[2] - 1))
                      /\ startsWithAt(text, x[2], name)
                      /\ isSpace(Char(text, x[2] + Len(name)))
                      /\ x[3] = RunEnd(text, x[2] + Len(name), isSpace) + 1
                      /\ isDigit(Char(text, x[3]))}}

\* C15: without 'today', 'yesterday' or 'last week' in the text, a month name followed
\* by a day number gives that month and day of the current year, wherever the phrase
\* stands and whatever precedes it.
C15_MonthNameDate ==
    (/\ result.op = "extractDate"
     /\ ~HasRelativeCue(result.arg)
     /\ MonthPhrases(result.arg) # {}) =>
        \E phrase \in MonthPhrases(result.arg) :
            result.data = <<DateOfDay(LocalDay(now))[1], phrase[1], phrase[2]>>

----------------------------------------------------------------------------
(* ClawhubBudget: the facade.  Every operation but initialize starts with  *)
(* ensureInitialized, which throws while initialize() has not completed.   *)

initialize ==
    /\ initialized' = TRUE
    /\ result' = Returned("initialize", initialized)
    /\ UNCHANGED <<transactions, budgets, goals, categories, insights, now, tz, running>>

\* throw new Error('Clawhub not initialized. Call initialize() first.')
ensureInitialized(op) ==
    /\ ~initialized
    /\ result' = Thrown(op, "Clawhub not initialized. Call initialize() first.")
    /\ UNCHANGED <<transactions, budgets, goals, categories, insights, initialized, now, tz, running>>

Clawhub_addExpense(amount, category, description, options) ==
    \/ ensureInitialized("addExpense")
    \/ /\ initialized
       /\ addTransaction(Merge([type |-> "expense", amount |-> amount,
                                category |-> category, description |-> description], options))

Clawhub_addIncome(amount, category, description, options) ==
    \/ ensureInitialized("addIncome")
    \/ /\ initialized
       /\ addTransaction(Merge([type |-> "income", amount |-> amount,
                                category |-> category, description |-> description], options))

Clawhub_addFromNaturalLanguage(input) ==
    \/ ensureInitialized("addFromNaturalLanguage")
    \/ /\ initialized
       /\ LET parsed == parseNaturalLanguage(input)
          IN  IF parsed = <<>>
              THEN /\ result' = Failure("addFromNaturalLanguage", "Could not parse input",
                                        "Unrecognized format")
                   /\ UNCHANGED <<transactions, budgets, goals, categories, insights,
                                  initialized, now, tz, running>>
              ELSE IF parsed[1].type = "expense"
              THEN Clawhub_addExpense(parsed[1].amount, parsed[1].category,
                                      parsed[1].description, [date |-> parsed[1].date])
              ELSE Clawhub_addIncome(parsed[1].amount, parsed[1].category,
                                     parsed[1].description, [date |-> parsed[1].date])

Clawhub_deleteTransaction(id) ==
    \/ ensureInitialized("deleteTransaction")
    \/ initialized /\ deleteTransaction(id)

\* data is {name, category, limit, period, alertThreshold}, alertThreshold left out
\* when the caller passes none.
Clawhub_createBudget(data) ==
    \/ ensureInitialized("createBudget")
    \/ initialized /\ createBudget(data)

Clawhub_getBudgetStatus ==
    \/ ensureInitialized("getBudgetStatus")
    \/ initialized /\ Query_getBudgetStatus(<<>>)

Clawhub_checkBudgetAlerts ==
    \/ ensureInitialized("checkBudgetAlerts")
    \/ initialized /\ Query_checkBudgetAlerts

Clawhub_createGoal(name, targetAmount, options) ==
    \/ ensureInitialized("createGoal")
    \/ initialized /\ createGoal(Merge([name |-> name, targetAmount |-> targetAmount], options))

Clawhub_contributeToGoal(goalId, amount) ==
    \/ ensureInitialized("contributeToGoal")
    \/ initialized /\ addContribution(goalId, amount)

Clawhub_getMonthlyTrends(monthCount) ==
    \/ ensureInitialized("getMonthlyTrends")
    \/ initialized /\ Query_getMonthlyTrends(monthCount)

----------------------------------------------------------------------------
(* SpecServices: every mutating operation of the services and the          *)
(* natural-language entry point, each with inputs that succeed and inputs  *)
(* that are turned down.                                                   *)

MaxServiceTransactions == 1
MaxServiceBudgets == 1
MaxServiceGoals == 1
MaxServiceContributions == 2

ServiceTransactionInputs ==
    {[type |-> "expense", amount |-> 2, category |-> "food & dining",
      description |-> "lunch", date |-> <<2023, 12, 31>>],
     [type |-> "expense", amount |-> 0, category |-> "food & dining",
      description |-> "lunch", date |-> <<2023, 12, 31>>],
     [type |-> "income", amount |-> 3, category |-> "Salary", description |-> ""]}

ServiceBudgetInputs ==
    {[name |-> "B", category |-> "Food & Dining", limit |-> 5, period |-> "monthly"],
     [name |-> "B", category |-> "Food & Dining", limit |-> 0, period |-> "monthly"],
     [name |-> "B", category |-> "Food & Dining", limit |-> 5, period |-> "hourly"]}

ServiceGoalInputs ==
    {[name |-> "G", targetAmount |-> 2],
     [name |-> "G", targetAmount |-> 0],
     [name |-> "", targetAmount |-> 2, currentAmount |-> -1]}

\* The texts handed to addFromNaturalLanguage.
TextInputs == ServiceTexts

NextServices ==
    \/ \E data \in ServiceTransactionInputs :
          addTransaction(data) /\ Len(transactions') <= MaxServiceTransactions
    \/ \E id \in Ids(transactions) \cup {0} : updateTransaction(id, [amount |-> 3])
    \/ \E id \in Ids(transactions) \cup {0} : deleteTransaction(id)
    \/ \E input \in TextInputs :
          Clawhub_addFromNaturalLanguage(input) /\ Len(transactions') <= MaxServiceTransactions
    \/ \E data \in ServiceBudgetInputs :
          createBudget(data) /\ Len(budgets') <= MaxServiceBudgets
    \/ \E id \in Ids(budgets) \cup {0} : updateBudget(id, [isActive |-> FALSE])
    \/ \E id \in Ids(budgets) \cup {0} : deleteBudget(id)
    \/ \E data \in ServiceGoalInputs : createGoal(data) /\ Len(goals') <= MaxServiceGoals
    \/ \E id \in GoalIdInputs : updateGoal(id, [priority |-> "high"])
    \/ \E id \in GoalIdInputs : deleteGoal(id)
    \/ \E goalId \in GoalIdInputs, amount \in ContributionAmounts :
          /\ addContribution(goalId, amount)
          /\ \A i \in 1..Len(goals') : Len(goals'[i].contributions) <= MaxServiceContributions
    \/ \E goalId \in GoalIdInputs, amount \in WithdrawalAmounts :
          /\ withdrawFromGoal(goalId, amount)
          /\ \A i \in 1..Len(goals') : Len(goals'[i].contributions) <= MaxServiceContributions

SpecServices == InitBudget /\ [][NextServices]_vars

\* C9: whenever a mutating operation returns success = false (validation failure,
\* unknown id, non-positive or over-balance goal amount, unparseable text) the stored
\* transactions, budgets, goals, categories and insights are exactly as before the call.
C9_FailureLeavesStore ==
    [][(Has(result', "success") /\ ~result'.success) => store' = store]_vars

\* C9 witness: with a transaction, a budget and a goal stored, a text that cannot be
\* parsed has just been turned down.
C9_Witness ==
    /\ Has(result, "success")
    /\ ~result.success
    /\ result.message = "Could not parse input"
    /\ transactions # <<>>
    /\ budgets # <<>>
    /\ goals # <<>>

----------------------------------------------------------------------------
(* SpecFacade: a ClawhubBudget object from construction on, initialize()   *)
(* called at any moment or not at all.                                     *)

MaxFacadeTransactions == 1
MaxFacadeBudgets == 1
MaxFacadeGoals == 1
MaxFacadeContributions == 1

InitFacade ==
    /\ transactions = <<>>
    /\ budgets = <<>>
    /\ goals = <<>>
    /\ categories = getDefaultCategories
    /\ insights = <<>>
    /\ initialized = FALSE
    /\ now = ClockStart
    /\ tz \in TimeZones
    /\ result = NoResult
    /\ running = <<>>

NextFacade ==
    \/ initialize
    \/ \E amount \in {0, 2} :
          /\ Clawhub_addExpense(amount, "Food & Dining", "lunch", [date |-> <<2023, 12, 31>>])
          /\ Len(transactions') <= MaxFacadeTransactions
    \/ /\ Clawhub_addIncome(3, "Salary", "pay", <<>>)
       /\ Len(transactions') <= MaxFacadeTransactions
    \/ \E input \in TextInputs :
          Clawhub_addFromNaturalLanguage(input) /\ Len(transactions') <= MaxFacadeTransactions
    \/ \E id \in Ids(transactions) \cup {0} : Clawhub_deleteTransaction(id)
    \/ \E data \in ServiceBudgetInputs :
          Clawhub_createBudget(data) /\ Len(budgets') <= MaxFacadeBudgets
    \/ Clawhub_getBudgetStatus
    \/ Clawhub_checkBudgetAlerts
    \/ \E targetAmount \in {0, 2} :
          Clawhub_createGoal("G", targetAmount, <<>>) /\ Len(goals') <= MaxFacadeGoals
    \/ \E goalId \in GoalIdInputs, amount \in ContributionAmounts :
          /\ Clawhub_contributeToGoal(goalId, amount)
          /\ \A i \in 1..Len(goals') : Len(goals'[i].contributions) <= MaxFacadeContributions
    \/ Clawhub_getMonthlyTrends(1)

SpecFacade == InitFacade /\ [][NextFacade]_vars

\* C10: every public operation of ClawhubBudget, called in any state (before
\* initialize() too), hands a result back to its caller and never throws.
C10_NeverThrows == ~Has(result, "thrown")
----------------------------------------------------------------------------
(* AnalyticsEngine: spending summaries and the month-over-month            *)
(* comparison.                                                             *)

\* The elements of xs without repetitions, each where it first occurs: the order in
\* which an object's keys or a Set's members are listed.
unique(xs) ==
    With({i \in 1..Len(xs) : \A j \in 1..(i - 1) : xs[j] # xs[i]}, LAMBDA firsts :
        [p \in 1..Cardinality(firsts) |->
            xs[CHOOSE i \in firsts : Cardinality({j \in firsts : j < i}) = p - 1]])

\* xs.sort((a, b) => b[field] - a[field]): descending, equal elements in their old order.
sortDescending(xs, field) ==
    [p \in 1..Len(xs) |->
        xs[CHOOSE i \in 1..Len(xs) :
              Cardinality({j \in 1..Len(xs) :
                              \/ xs[j][field] > xs[i][field]
                              \/ xs[j][field] = xs[i][field] /\ j < i}) = p - 1]]

\* xs.slice(0, n)
slice(xs, n) == SubSeq(xs, 1, IF Len(xs) < n THEN Len(xs) ELSE n)

getTransactionsInRange(range) ==
    SelectSeq(transactions, LAMBDA t : isWithinInterval(newDate(t.date), range))

getCurrentMonthRange == [start |-> startOfMonth(now), end |-> endOfMonth(now)]

getLastMonthRange ==
    [start |-> startOfMonth(subMonths(now, 1)), end |-> endOfMonth(subMonths(now, 1))]

categoriesOf(xs) == [i \in 1..Len(xs) |-> xs[i].category]

\* One CategoryTotal: the entry of categoryMap for a category, with its share of total.
CategoryTotal(category, txs, total) ==
    [category   |-> category,
     total      |-> SumAmounts(txs),
     count      |-> Len(txs),
     percentage |-> IF total > 0 THEN [num |-> SumAmounts(txs) * 100, den |-> total]
                    ELSE [num |-> 0, den |-> 1]]

calculateCategoryTotals(txs, total) ==
    With(unique(categoriesOf(txs)), LAMBDA keys :
        sortDescending(
            [p \in 1..Len(keys) |->
                CategoryTotal(keys[p], SelectSeq(txs, LAMBDA t : t.category = keys[p]), total)],
            "total"))

\* The SpendingSummary of a range from its expenses and its income.
summaryOf(range, expenses, income) ==
    [totalExpenses      |-> SumAmounts(expenses),
     totalIncome        |-> SumAmounts(income),
     netSavings         |-> SumAmounts(income) - SumAmounts(expenses),
     expensesByCategory |-> calculateCategoryTotals(expenses, SumAmounts(expenses)),
     incomeByCategory   |-> calculateCategoryTotals(income, SumAmounts(income)),
     period             |-> [start |-> toISODate(range.start), end |-> toISODate(range.end)]]

getSpendingSummary(range) ==
    With(getTransactionsInRange(range), LAMBDA txs :
        summaryOf(range, SelectSeq(txs, LAMBDA t : t.type = "expense"),
                         SelectSeq(txs, LAMBDA t : t.type = "income")))

\* totals.find(c => c.category === cat)?.total || 0
totalFor(totals, cat) ==
    IF \E i \in 1..Len(totals) : totals[i].category = cat
    THEN totals[CHOOSE i \in 1..Len(totals) : totals[i].category = cat].total
    ELSE 0

\* The changes array before it is sorted: one entry per category of either month, the
\* current month's categories first.
categoryChanges(current, last) ==
    With(unique(categoriesOf(current) \o categoriesOf(last)), LAMBDA allCategories :
        [p \in 1..Len(allCategories) |->
            [category |-> allCategories[p],
             change   |-> totalFor(current, allCategories[p]) - totalFor(last, allCategories[p])]])

\* A variant of topIncreases that keeps the categories whose total did not change.
topIncreases_unchangedToo(changes) == slice(SelectSeq(changes, LAMBDA c : c.change >= 0), 3)

\* changes.filter(c => c.change > 0).slice(0, 3)
topIncreases(changes) == slice(SelectSeq(changes, LAMBDA c : c.change > 0), 3)

\* changes.filter(c => c.change < 0).slice(0, 3)
topDecreases(changes) == slice(SelectSeq(changes, LAMBDA c : c.change < 0), 3)

\* The comparison of two summaries, changes being the sorted array.
comparisonOf(currentMonth, lastMonth, changes) ==
    [expenseChange |-> currentMonth.totalExpenses - lastMonth.totalExpenses,
     incomeChange  |-> currentMonth.totalIncome - lastMonth.totalIncome,
     savingsChange |-> currentMonth.netSavings - lastMonth.netSavings,
     topIncreases  |-> topIncreases(changes),
     topDecreases  |-> topDecreases(changes)]

compareSummaries(currentMonth, lastMonth) ==
    comparisonOf(currentMonth, lastMonth,
                 sortDescending(categoryChanges(currentMonth.expensesByCategory,
                                                lastMonth.expensesByCategory), "change"))

compareToLastMonth ==
    compareSummaries(getSpendingSummary(getCurrentMonthRange),
                     getSpendingSummary(getLastMonthRange))

Query_compareToLastMonth ==
    /\ result' = Called("compareToLastMonth", <<>>, compareToLastMonth)
    /\ UNCHANGED <<transactions, budgets, goals, categories, insights, initialized, now, tz, running>>

----------------------------------------------------------------------------
(* SpecCompare: the comparison over ledgers of up to                       *)
(* MaxCompareTransactions expenses and income of the previous month, the   *)
(* current month and an earlier one, as the clock passes the new year.     *)

MaxCompareTransactions == 4

CompareTransactionInputs ==
    {[type |-> "expense", amount |-> 1, category |-> "Food & Dining",
      description |-> "x", date |-> <<2023, 11, 15>>],
     [type |-> "expense", amount |-> 2, category |-> "Transportation",
      description |-> "x", date |-> <<2023, 11, 15>>],
     [type |-> "expense", amount |-> 3, category |-> "Shopping",
      description |-> "x", date |-> <<2023, 11, 15>>],
     [type |-> "expense", amount |-> 4, category |-> "Entertainment",
      description |-> "x", date |-> <<2023, 11, 15>>],
     [type |-> "expense", amount |-> 1, category |-> "Food & Dining",
      description |-> "x", date |-> <<2023, 12, 15>>],
     [type |-> "expense", amount |-> 5, category |-> "Shopping",
      description |-> "x", date |-> <<2023, 12, 15>>],
     [type |-> "income", amount |-> 6, category |-> "Salary",
      description |-> "x", date |-> <<2023, 12, 15>>],
     [type |-> "expense", amount |-> 7, category |-> "Food & Dining",
      description |-> "x", date |-> <<2023, 6, 15>>]}

NextCompare ==
    \/ \E data \in CompareTransactionInputs :
          Len(transactions) < MaxCompareTransactions /\ addTransaction(data)
    \/ Query_compareToLastMonth
    \/ Tick

SpecCompare == InitBudget /\ [][NextCompare]_vars

\* The local calendar month of the clock, counted from year 0, and the month of a
\* transaction's date counted the same way.
CurrentMonthNumber == DateOfDay(LocalDay(now))[1] * 12 + DateOfDay(LocalDay(now))[2] - 1
MonthNumberOf(t) == t.date[1] * 12 + t.date[2] - 1

\* What the ledger's expenses of a category come to in a month.
MonthExpenses(category, monthNumber) ==
    SumAmounts(SelectSeq(transactions, LAMBDA t :
        t.type = "expense" /\ t.category = category /\ MonthNumberOf(t) = monthNumber))

\* currentTotal - lastTotal of a category.
LedgerChange(category) ==
    MonthExpenses(category, CurrentMonthNumber) - MonthExpenses(category, CurrentMonthNumber - 1)

\* The expense categories of the current and the previous month.
ComparedCategories ==
    {transactions[i].category : i \in
        {j \in 1..Len(transactions) :
            /\ transactions[j].type = "expense"
            /\ MonthNumberOf(transactions[j]) \in {CurrentMonthNumber, CurrentMonthNumber - 1}}}

Listed(entries) == {entries[i].category : i \in 1..Len(entries)}

\* C17: over the union of the two months' expense categories, with change =
\* currentTotal - lastTotal, topIncreases are the (up to) 3 categories with the largest
\* positive change and topDecreases the (up to) 3 with the most negative change.
C17_TopChanges ==
    result.op = "compareToLastMonth" =>
        LET inc == result.data.topIncreases
            dec == result.data.topDecreases
            rising  == {c \in ComparedCategories : LedgerChange(c) > 0}
            falling == {c \in ComparedCategories : LedgerChange(c) < 0}
        IN  /\ \A i \in 1..Len(inc) : inc[i].change = LedgerChange(inc[i].category)
            /\ \A i \in 1..Len(dec) : dec[i].change = LedgerChange(dec[i].category)
            /\ Listed(inc) \subseteq rising
            /\ Listed(dec) \subseteq falling
            /\ Cardinality(Listed(inc)) = (IF Cardinality(rising) < 3 THEN Cardinality(rising) ELSE 3)
            /\ Cardinality(Listed(dec)) = (IF Cardinality(falling) < 3 THEN Cardinality(falling) ELSE 3)
            /\ \A c \in rising \ Listed(inc) : \A k \in Listed(inc) : LedgerChange(c) <= LedgerChange(k)
            /\ \A c \in falling \ Listed(dec) : \A k \in Listed(dec) : LedgerChange(c) >= LedgerChange(k)

----------------------------------------------------------------------------
(* Goal progress: GoalsService.getGoalProgress and the goal snapshot of    *)
(* AnalyticsEngine.generateMonthlyReport.  A quotient the code computes in *)
(* floating point is compared exactly, by cross-multiplication.            *)

\* Math.ceil(hours / 24): whole days, rounded up.
ceilDays(hours) == -((-hours) \div HoursPerDay)

\* Math.ceil((deadline.getTime() - now.getTime()) / (1000 * 60 * 60 * 24))
daysUntil(deadline, instant) == ceilDays(newDate(deadline) - instant)

\* (percentageComplete / 100) >= (daysPassed / totalDays) * 0.8, for targetAmount > 0;
\* 0 / 0 is NaN, which no number is at least.
aheadOfSchedule(goal, daysPassed, totalDays) ==
    IF totalDays > 0 THEN goal.currentAmount * 5 * totalDays >= 4 * daysPassed * goal.targetAmount
    ELSE IF totalDays < 0
    THEN goal.currentAmount * 5 * totalDays <= 4 * daysPassed * goal.targetAmount
    ELSE IF daysPassed > 0 THEN FALSE
    ELSE IF daysPassed < 0 THEN TRUE
    ELSE FALSE

\* The GoalProgress of a goal with a deadline, from daysRemaining and totalDays.
progressWithDeadline(goal, daysRemaining, totalDays) ==
    [goalId             |-> goal.id,
     goalName           |-> goal.name,
     targetAmount       |-> goal.targetAmount,
     currentAmount      |-> goal.currentAmount,
     percentageComplete |-> [num |-> goal.currentAmount * 100, den |-> goal.targetAmount],
     daysRemaining      |-> daysRemaining,
     onTrack            |-> aheadOfSchedule(goal, totalDays - daysRemaining, totalDays)]

\* The GoalProgress of a stored goal.
progressOf(goal) ==
    IF Has(goal, "deadline")
    THEN progressWithDeadline(goal, Max(0, daysUntil(goal.deadline, now)),
                              daysUntil(goal.deadline, goal.createdAt))
    ELSE [goalId             |-> goal.id,
          goalName           |-> goal.name,
          targetAmount       |-> goal.targetAmount,
          currentAmount      |-> goal.currentAmount,
          percentageComplete |-> [num |-> goal.currentAmount * 100, den |-> goal.targetAmount],
          onTrack            |-> TRUE]

\* null is <<>>.
getGoalProgress(goalId) ==
    IF findIndex(goals, goalId) = 0 THEN <<>> ELSE <<progressOf(getGoalById(goalId))>>

Query_getGoalProgress(goalId) ==
    /\ result' = Called("getGoalProgress", goalId, getGoalProgress(goalId))
    /\ UNCHANGED <<transactions, budgets, goals, categories, insights, initialized, now, tz, running>>

\* (g.currentAmount / g.targetAmount) >= (1 - days / 30), for targetAmount > 0.
withinThirtyDays(g, days) == g.currentAmount * 30 >= (30 - days) * g.targetAmount

\* One entry of the report's goalProgress.
reportProgressOf(g) ==
    Merge([goalId             |-> g.id,
           goalName           |-> g.name,
           targetAmount       |-> g.targetAmount,
           currentAmount      |-> g.currentAmount,
           percentageComplete |-> IF g.targetAmount > 0
                                  THEN [num |-> g.currentAmount * 100, den |-> g.targetAmount]
                                  ELSE [num |-> 0, den |-> 1],
           onTrack            |-> \/ ~Has(g, "deadline")
                                  \/ withinThirtyDays(g, daysUntil(g.deadline, now))],
          IF Has(g, "deadline")
          THEN [daysRemaining |-> Max(0, daysUntil(g.deadline, now))]
          ELSE <<>>)

\* format(monthStart, 'MMMM')
monthNames ==
    <<"January", "February", "March", "April", "May", "June",
      "July", "August", "September", "October", "November", "December">>

\* The report of the month that starts at monthStart.
reportOf(targetYear, monthStart) ==
    [month        |-> monthNames[DateOfDay(LocalDay(monthStart))[2]],
     year         |-> targetYear,
     summary      |-> getSpendingSummary([start |-> monthStart, end |-> endOfMonth(monthStart)]),
     budgetStatus |-> getBudgetStatus(<<>>),
     goalProgress |-> MapSeq(goals, reportProgressOf),
     insights     |-> SelectSeq(insights, LAMBDA i : ~i.isRead),
     trends       |-> getDailyTrends(30)]

\* year and month are <<>> when the argument is omitted.
generateMonthlyReport(year, month) ==
    With(IF year # <<>> THEN year[1] ELSE getFullYear(now), LAMBDA targetYear :
        reportOf(targetYear,
                 newLocalDate(targetYear,
                              (IF month # <<>> THEN month[1]
                               ELSE DateOfDay(LocalDay(now))[2]) - 1, 1)))

Query_generateMonthlyReport(year, month) ==
    /\ result' = Called("generateMonthlyReport", <<year, month>>,
                        generateMonthlyReport(year, month))
    /\ UNCHANGED <<transactions, budgets, goals, categories, insights, initialized, now, tz, running>>

----------------------------------------------------------------------------
(* SpecReport: goals with and without deadlines, near and far, funded as   *)
(* time passes, with the monthly report and the goal progress read at      *)
(* every step.                                                             *)

MaxReportGoals == 2
MaxReportContributions == 1

\* Deadlines on the day the clock starts, ten days on, and two months on.
ReportGoalInputs ==
    {[name |-> "G", targetAmount |-> 2],
     [name |-> "G", targetAmount |-> 2, deadline |-> <<2023, 12, 31>>],
     [name |-> "G", targetAmount |-> 2, deadline |-> <<2024, 1, 10>>],
     [name |-> "G", targetAmount |-> 2, deadline |-> <<2024, 3, 1>>]}

NextReport ==
    \/ \E data \in ReportGoalInputs :
          createGoal(data) /\ Len(goals') <= MaxReportGoals
    \/ \E goalId \in Ids(goals), amount \in 1..2 :
          /\ addContribution(goalId, amount)
          /\ \A i \in 1..Len(goals') : Len(goals'[i].contributions) <= MaxReportContributions
    \/ \E goalId \in Ids(goals) : Query_getGoalProgress(goalId)
    \/ Query_generateMonthlyReport(<<>>, <<>>)
    \/ Tick

SpecReport == InitBudget /\ [][NextReport]_vars

\* C19: for every goal with a deadline the report's snapshot marks it onTrack if and
\* only if actual progress is at least 80% of the progress expected for the time
\* elapsed between creation and deadline: it agrees with getGoalProgress for the same
\* goal at the same instant.
C19_ReportAgreesWithGoalProgress ==
    result.op = "generateMonthlyReport" =>
        \A i \in 1..Len(goals) :
            Has(goals[i], "deadline") =>
                result.data.goalProgress[i].onTrack = getGoalProgress(goals[i].id)[1].onTrack
----------------------------------------------------------------------------
(* InsightsEngine: generateInsights and the four analyses it runs.  An     *)
(* insight keeps its id, type, title, priority and isRead flag; titles are *)
(* written without their emoji.                                            *)

\* (Date.now() - new Date(t.date).getTime()) / (1000 * 60 * 60 * 24) <= 7
withinLastWeek(t) == now - newDate(t.date) <= 7 * HoursPerDay

\* t.amount > stats.avg * 2, stats being the total and count of the expenses of
\* t's category.
aboveTwiceAverage(t, sameCategory) ==
    t.amount * Len(sameCategory) > 2 * SumAmounts(sameCategory)

\* The insights of detectAnomalies, their ids still to be drawn.
detectAnomalies(txs) ==
    MapSeq(SelectSeq(txs, LAMBDA t :
               /\ withinLastWeek(t)
               /\ t.type = "expense"
               /\ aboveTwiceAverage(t, SelectSeq(txs, LAMBDA u :
                      u.type = "expense" /\ u.category = t.category))),
           LAMBDA t : [type |-> "anomaly", title |-> "Unusual Spending Detected",
                       relatedTransactions |-> <<t.id>>, priority |-> 7, isRead |-> FALSE])

\* The local <<year, month>> of an instant: getFullYear() and getMonth() + 1.
monthOf(instant) == <<DateOfDay(LocalDay(instant))[1], DateOfDay(LocalDay(instant))[2]>>

\* lastMonth.setMonth(lastMonth.getMonth() - 1): the same day of the month before, a day
\* that month does not have rolling over into the next.
setMonthBack(instant) ==
    newLocalDate(DateOfDay(LocalDay(instant))[1], DateOfDay(LocalDay(instant))[2] - 2,
                 DateOfDay(LocalDay(instant))[3])

\* The expenses of the transactions whose date falls in the month of an instant.
expensesInMonthOf(txs, instant) ==
    SumAmounts(SelectSeq(txs, LAMBDA t :
        t.type = "expense" /\ monthOf(newDate(t.date)) = monthOf(instant)))

\* The insight analyzeTrends derives from the two months' expenses: change is
\* (thisMonth - lastMonth) / lastMonth * 100.
trendInsights(thisMonthExpenses, lastMonthExpenses) ==
    IF lastMonthExpenses <= 0 THEN <<>>
    ELSE IF (thisMonthExpenses - lastMonthExpenses) * 100 > 15 * lastMonthExpenses
    THEN <<[type |-> "warning", title |-> "Spending Increased",
            priority |-> IF (thisMonthExpenses - lastMonthExpenses) * 100 > 30 * lastMonthExpenses
                         THEN 8 ELSE 5,
            isRead |-> FALSE]>>
    ELSE IF (lastMonthExpenses - thisMonthExpenses) * 100 > 15 * lastMonthExpenses
    THEN <<[type |-> "achievement", title |-> "Spending Decreased",
            priority |-> IF (lastMonthExpenses - thisMonthExpenses) * 100 > 30 * lastMonthExpenses
                         THEN 8 ELSE 5,
            isRead |-> FALSE]>>
    ELSE <<>>

analyzeTrends(txs) ==
    trendInsights(expensesInMonthOf(txs, now), expensesInMonthOf(txs, setMonthBack(now)))

generateSavingsTips(txs) ==
    IF Len(SelectSeq(txs, LAMBDA t : t.category = "Subscriptions" \/ t.isRecurring)) > 3
    THEN <<[type |-> "tip", title |-> "Review Subscriptions", priority |-> 6, isRead |-> FALSE]>>
    ELSE <<>>

\* The title of the 'first 10 transactions' achievement.
GettingStarted == "Getting Started!"

\* Achievement: first 10 transactions logged.
firstTen(txs) ==
    IF Len(txs) = 10
    THEN <<[type |-> "achievement", title |-> GettingStarted, priority |-> 3, isRead |-> FALSE]>>
    ELSE <<>>

\* Achievement: 7 different dates among the transactions of the last week.
streak(txs) ==
    IF Cardinality({txs[i].date : i \in {j \in 1..Len(txs) : withinLastWeek(txs[j])}}) >= 7
    THEN <<[type |-> "achievement", title |-> "Streak Master!", priority |-> 4, isRead |-> FALSE]>>
    ELSE <<>>

checkAchievements(txs) == firstTen(txs) \o streak(txs)

\* The insights of one generateInsights call in the order they are pushed, each with a
\* fresh id.
newInsights(found) ==
    [k \in 1..Len(found) |-> Merge([id |-> Len(insights) + k], found[k])]

generateInsights ==
    /\ insights' = insights \o newInsights(detectAnomalies(transactions)
                                           \o analyzeTrends(transactions)
                                           \o generateSavingsTips(transactions)
                                           \o checkAchievements(transactions))
    /\ result' = Called("generateInsights", <<>>, SubSeq(insights', Len(insights) + 1, Len(insights')))
    /\ UNCHANGED <<transactions, budgets, goals, categories, initialized, now, tz, running>>

----------------------------------------------------------------------------
(* SpecInsights: a ledger that grows to MaxInsightTransactions entries and *)
(* shrinks again, with generateInsights called at any point until          *)
(* MaxInsights insights are stored.                                        *)

MaxInsightTransactions == 11
MaxInsights == 2

InsightTransactionInputs ==
    {[type |-> "expense", amount |-> 1, category |-> "Food & Dining",
      description |-> "x", date |-> <<2023, 12, 31>>]}

NextInsights ==
    \/ \E data \in InsightTransactionInputs :
          Len(transactions) < MaxInsightTransactions /\ addTransaction(data)
    \/ \E id \in {transactions[i].id : i \in {Len(transactions)} \cap DOMAIN transactions} :
          deleteTransaction(id)
    \/ generateInsights /\ Len(insights') <= MaxInsights
    \/ Tick

SpecInsights == InitBudget /\ [][NextInsights]_vars

\* The 'first 10 transactions' achievements among some insights.
FirstTenAchievements(found) == {i \in 1..Len(found) : found[i].title = GettingStarted}

\* C20: a generateInsights call appends the 'first 10 transactions' achievement exactly
\* when the ledger holds exactly 10 transactions at that call, and the milestone is
\* one-time: it is appended at most once over the whole sequence of calls.
C20_FirstTenOnce ==
    /\ result.op = "generateInsights" =>
          (FirstTenAchievements(result.data) # {} <=> Len(transactions) = 10)
    /\ Cardinality(FirstTenAchievements(insights)) <= 1
----------------------------------------------------------------------------
(* TransactionService: recurring transactions.  A recurring template is a  *)
(* stored transaction with isRecurring and a recurringConfig               *)
(* {frequency, nextDate, endDate?, occurrences?}; an absent field is       *)
(* undefined.  The notes of a generated transaction name its template.     *)

\* date-fns addDays: the same local time of day, amount days on.
addDays(instant, amount) == instant + amount * HoursPerDay

\* date-fns addWeeks
addWeeks(instant, amount) == addDays(instant, amount * 7)

\* date-fns addMonths, on the local calendar fields of the instant: the same day of the
\* month amount months on, or that month's last day when it has no such day; the local
\* time of day is kept.
addMonths(instant, amount) ==
    With(DateOfDay(LocalDay(instant)), LAMBDA local :
        With(local[1] * 12 + (local[2] - 1) + amount, LAMBDA index :
            With(getDaysInMonth(index \div 12, (index % 12) + 1), LAMBDA daysInMonth :
                DayNumber(<<index \div 12, (index % 12) + 1,
                            IF local[3] >= daysInMonth THEN daysInMonth ELSE local[3]>>)
                    * HoursPerDay
                + ((instant + tz) % HoursPerDay) - tz)))

\* date-fns addYears
addYears(instant, amount) == addMonths(instant, amount * 12)

RecurringFrequencies == {"daily", "weekly", "biweekly", "monthly", "yearly"}

calculateNextDate(current, frequency) ==
    CASE frequency = "daily"    -> addDays(current, 1)
      [] frequency = "weekly"   -> addWeeks(current, 1)
      [] frequency = "biweekly" -> addWeeks(current, 2)
      [] frequency = "monthly"  -> addMonths(current, 1)
      [] frequency = "yearly"   -> addYears(current, 1)

\* options is the record of the optional arguments startDate, endDate and occurrences.
recurringData(type, amount, category, description, frequency, options) ==
    With(IF Has(options, "startDate") THEN options.startDate ELSE toISODate(now), LAMBDA startDate :
        [type |-> type, amount |-> amount, category |-> category, description |-> description,
         date |-> startDate, isRecurring |-> TRUE,
         recurringConfig |->
             Merge([frequency |-> frequency, nextDate |-> startDate],
                   [f \in DOMAIN options \cap {"endDate", "occurrences"} |-> options[f]])])

createRecurringTransaction(type, amount, category, description, frequency, options) ==
    addTransaction(recurringData(type, amount, category, description, frequency, options))

\* this.storage.getTransactions().filter(t => t.isRecurring && t.recurringConfig)
recurringTx(txs) == SelectSeq(txs, LAMBDA t : t.isRecurring /\ Has(t, "recurringConfig"))

\* A variant of endDatePassed that never finds the end date passed.
endDatePassed_never(config, todayStr) == FALSE

\* config.endDate && config.endDate < todayStr
endDatePassed(config, todayStr) ==
    Has(config, "endDate") /\ ~DateLE(todayStr, config.endDate)

\* The template is processed in this call: its end date has not passed and
\* config.nextDate <= todayStr.
isDue(tx, todayStr) ==
    /\ ~endDatePassed(tx.recurringConfig, todayStr)
    /\ DateLE(tx.recurringConfig.nextDate, todayStr)

GeneratedFrom(id) == <<"Generated from recurring", id>>

\* The data of the transaction generated from a template.
generatedData(tx) ==
    [type |-> tx.type, amount |-> tx.amount, category |-> tx.category,
     description |-> tx.description \o " (auto)",
     date |-> tx.recurringConfig.nextDate,
     notes |-> GeneratedFrom(tx.id)]

\* The ledger after `await this.addTransaction({...})` for a due template: the generated
\* transaction is appended when its data is valid.
withGenerated(txs, tx) ==
    IF validateTransaction(generatedData(tx)).valid
    THEN Append(txs, Merge(newTransaction(generatedData(tx)), [id |-> uuidv4(txs)]))
    ELSE txs

\* { ...config, nextDate, occurrences: config.occurrences ? config.occurrences - 1 : undefined }
nextConfig(config) ==
    Merge([f \in DOMAIN config \ {"occurrences"} |-> config[f]],
          Merge([nextDate |-> toISODate(calculateNextDate(newDate(config.nextDate),
                                                          config.frequency))],
                IF Has(config, "occurrences") /\ config.occurrences # 0
                THEN [occurrences |-> config.occurrences - 1]
                ELSE <<>>))

\* A variant of withNextDate that leaves the template's nextDate where it was.
withNextDate_unsaved(txs, tx) == txs

\* The ledger after `await this.storage.updateTransaction(tx.id, {recurringConfig})`; tx is
\* the template as it was read when the call began.
withNextDate(txs, tx) ==
    IF findIndex(txs, tx.id) = 0 THEN txs
    ELSE storageUpdate(txs, tx.id, [recurringConfig |-> nextConfig(tx.recurringConfig)])

RECURSIVE processEach(_, _, _, _)
\* The loop over the templates read at the start of the call: the ledger and the
\* createdTransactions it ends with.
processEach(txs, pending, created, todayStr) ==
    IF pending = <<>> THEN [transactions |-> txs, created |-> created]
    ELSE IF ~isDue(Head(pending), todayStr)
    THEN processEach(txs, Tail(pending), created, todayStr)
    ELSE With(withGenerated(txs, Head(pending)), LAMBDA added :
             processEach(withNextDate(added, Head(pending)), Tail(pending),
                         created \o SubSeq(added, Len(txs) + 1, Len(added)), todayStr))

\* One call, run to its end with no other call in between.
processRecurringTransactions ==
    /\ transactions' = processEach(transactions, recurringTx(transactions), <<>>,
                                   toISODate(now)).transactions
    /\ result' = Success("processRecurringTransactions",
                         processEach(transactions, recurringTx(transactions), <<>>,
                                     toISODate(now)).created)
    /\ UNCHANGED <<budgets, goals, categories, insights, initialized, now, tz, running>>
----------------------------------------------------------------------------
(* SpecRecurring: recurring templates of every frequency, with and without *)
(* an end date and an occurrences counter, processed call after call while *)
(* the clock moves from 2023-12-31 into 2024-01-01.                        *)

MaxTemplates == 2

\* What callers pass to createRecurringTransaction; the description tells the inputs apart.
RecurringInputs ==
    {[description |-> "coffee", frequency |-> "daily", options |-> [startDate |-> <<2023, 12, 30>>]],
     [description |-> "once", frequency |-> "daily",
      options |-> [startDate |-> <<2023, 12, 30>>, occurrences |-> 1]],
     [description |-> "trial", frequency |-> "daily",
      options |-> [startDate |-> <<2023, 12, 30>>, endDate |-> <<2023, 12, 31>>]],
     [description |-> "gym", frequency |-> "weekly", options |-> [startDate |-> <<2023, 12, 24>>]],
     [description |-> "pay", frequency |-> "biweekly", options |-> [startDate |-> <<2023, 12, 17>>]],
     [description |-> "rent", frequency |-> "monthly", options |-> [startDate |-> <<2023, 12, 1>>]],
     [description |-> "insurance", frequency |-> "yearly", options |-> [startDate |-> <<2022, 12, 31>>]],
     [description |-> "later", frequency |-> "daily", options |-> [startDate |-> <<2024, 1, 5>>]],
     [description |-> "news", frequency |-> "daily", options |-> <<>>]}

NextRecurring ==
    \/ \E input \in RecurringInputs :
          /\ Len(recurringTx(transactions)) < MaxTemplates
          /\ createRecurringTransaction("expense", 5, "Subscriptions", input.description,
                                        input.frequency, input.options)
    \/ processRecurringTransactions
    \/ Tick

SpecRecurring == InitBudget /\ [][NextRecurring]_vars

\* The positions of the ledger's templates, and of the transactions generated from one.
Templates == {i \in 1..Len(transactions) : transactions[i].isRecurring}
GeneratedOf(txs, id) ==
    {i \in 1..Len(txs) : Has(txs[i], "notes") /\ txs[i].notes = GeneratedFrom(id)}

\* The options a template was created with.
CreatedWith(tx) == (CHOOSE input \in RecurringInputs : input.description = tx.description).options

\* C25: a recurring transaction created with a remaining-occurrences counter n >= 1
\* produces at most n generated transactions, whatever the calls and the clock do.
C25_AtMostNOccurrences ==
    \A i \in Templates :
        Has(CreatedWith(transactions[i]), "occurrences") =>
            Cardinality(GeneratedOf(transactions, transactions[i].id))
                <= CreatedWith(transactions[i]).occurrences

\* C26: the ledger holds one transaction per occurrence date of a recurring definition:
\* no two of the template and the transactions generated from it carry the same date.
C26_OnePerOccurrenceDate ==
    \A i \in Templates :
        \A j, k \in {i} \cup GeneratedOf(transactions, transactions[i].id) :
            transactions[j].date = transactions[k].date => j = k

\* One frequency step on from a calendar date: 1 day, 1 week, 2 weeks, the same day of
\* the next month or of the next year (the month's last day when it has no such day).
MonthsOn(date, amount) ==
    With(date[1] * 12 + (date[2] - 1) + amount, LAMBDA index :
        With(getDaysInMonth(index \div 12, (index % 12) + 1), LAMBDA daysInMonth :
            <<index \div 12, (index % 12) + 1, IF date[3] > daysInMonth THEN daysInMonth ELSE date[3]>>))
OneStepOn(date, frequency) ==
    CASE frequency = "daily"    -> DateOfDay(DayNumber(date) + 1)
      [] frequency = "weekly"   -> DateOfDay(DayNumber(date) + 7)
      [] frequency = "biweekly" -> DateOfDay(DayNumber(date) + 14)
      [] frequency = "monthly"  -> MonthsOn(date, 1)
      [] frequency = "yearly"   -> MonthsOn(date, 12)

\* A template is due today: nextDate <= today, and no endDate before today.
DueToday(tx) ==
    /\ DateLE(tx.recurringConfig.nextDate, toISODate(now))
    /\ Has(tx.recurringConfig, "endDate") => DateLE(toISODate(now), tx.recurringConfig.endDate)

\* C27: a processRecurringTransactions call creates, for every due template, exactly one
\* transaction dated with the template's nextDate before the call and moves that nextDate one
\* frequency step on; templates not due are left as they are, and what is generated is
\* never recurring.
C27_OneStepPerCall ==
    [][result'.op = "processRecurringTransactions" =>
          /\ \A k \in (Len(transactions) + 1)..Len(transactions') : ~transactions'[k].isRecurring
          /\ \A i \in Templates :
                With(GeneratedOf(transactions', transactions[i].id)
                         \ GeneratedOf(transactions, transactions[i].id), LAMBDA created :
                    IF DueToday(transactions[i])
                    THEN /\ Cardinality(created) = 1
                         /\ \A k \in created :
                               transactions'[k].date = transactions[i].recurringConfig.nextDate
                         /\ transactions'[i].recurringConfig.nextDate
                               = OneStepOn(transactions[i].recurringConfig.nextDate,
                                           transactions[i].recurringConfig.frequency)
                    ELSE created = {} /\ transactions'[i] = transactions[i])]_vars

\* C29: every transaction generated from a template with an endDate is dated on or
\* before that endDate.
C29_GeneratedWithinEndDate ==
    \A i \in Templates :
        Has(transactions[i].recurringConfig, "endDate") =>
            \A k \in GeneratedOf(transactions, transactions[i].id) :
                DateLE(transactions[k].date, transactions[i].recurringConfig.endDate)

\* A template with an endDate has generated its last transaction and the clock is past
\* the endDate.
C29_Witness ==
    \E i \in Templates :
        /\ Has(transactions[i].recurringConfig, "endDate")
        /\ \E k \in GeneratedOf(transactions, transactions[i].id) :
              transactions[k].date = transactions[i].recurringConfig.endDate
        /\ ~DateLE(toISODate(now), transactions[i].recurringConfig.endDate)
----------------------------------------------------------------------------
(* SpecFixedDate: the clock stands still while the caller keeps calling    *)
(* processRecurringTransactions; templates are created at any point, up to *)
(* MaxFixedTemplates of them.  FairFixedDate adds that the caller's next   *)
(* call does come.                                                         *)

MaxFixedTemplates == 2

\* No ledger of the model is longer: a template and the at most three transactions it
\* generates up to the latest of FixedClocks.
MaxFixedLedger == 4 * MaxFixedTemplates

\* The instants the clock can stand at.
FixedClocks == {ClockStart, ClockStart + HoursPerDay}

InitFixedDate ==
    /\ transactions = <<>>
    /\ budgets = <<>>
    /\ goals = <<>>
    /\ categories = getDefaultCategories
    /\ insights = <<>>
    /\ initialized = TRUE
    /\ now \in FixedClocks
    /\ tz \in TimeZones
    /\ result = NoResult
    /\ running = <<>>

NextCall == Len(transactions) <= MaxFixedLedger /\ processRecurringTransactions

NextFixedDate ==
    \/ \E input \in RecurringInputs :
          /\ Len(recurringTx(transactions)) < MaxFixedTemplates
          /\ createRecurringTransaction("expense", 5, "Subscriptions", input.description,
                                        input.frequency, input.options)
    \/ NextCall

SpecFixedDate == InitFixedDate /\ [][NextFixedDate]_vars

\* ENABLED <<NextCall>>_vars: the call is allowed and what it writes differs from what
\* is there.
CallChanges ==
    /\ Len(transactions) <= MaxFixedLedger
    /\ \/ processEach(transactions, recurringTx(transactions), <<>>,
                      toISODate(now)).transactions # transactions
       \/ Success("processRecurringTransactions",
                  processEach(transactions, recurringTx(transactions), <<>>,
                              toISODate(now)).created) # result

\* The caller keeps calling: weak fairness of NextCall, WF_vars(NextCall) written out
\* with CallChanges for ENABLED <<NextCall>>_vars.
FairFixedDate == SpecFixedDate /\ ([]<>~CallChanges \/ []<><<NextCall>>_vars)

\* No template is due: each has nextDate > today or an endDate before today.
NoneDue == \A i \in Templates : ~DueToday(transactions[i])

\* C28: with the date fixed, repeated processRecurringTransactions calls reach a point
\* from which no template is due any more, and a call made when none is due leaves the
\* ledger as it is.
C28_CallsComeToRest ==
    /\ <>[]NoneDue
    /\ [][NoneDue /\ result'.op = "processRecurringTransactions"
              => transactions' = transactions]_vars

\* A call has just created nothing, after earlier calls generated transactions.
C28_Witness ==
    /\ result = Success("processRecurringTransactions", <<>>)
    /\ NoneDue
    /\ \E i \in Templates : Cardinality(GeneratedOf(transactions, transactions[i].id)) >= 2
----------------------------------------------------------------------------
(* processRecurringTransactions, await by await.  A call runs from one     *)
(* await to the next without interruption; while it is suspended other     *)
(* calls run.  A suspended call holds the templates it read when it began, *)
(* of which the first is the one it is working on, and its                 *)
(* createdTransactions.                                                    *)

\* The templates the loop of a call beginning now does not skip.
dueTemplates == SelectSeq(recurringTx(transactions), LAMBDA t : isDue(t, toISODate(now)))

\* What withGenerated appended to the ledger.
generatedIn(txs, tx) == SubSeq(withGenerated(txs, tx), Len(txs) + 1, Len(withGenerated(txs, tx)))

\* A call begins and runs to its first await: `await this.addTransaction(...)` for the
\* first due template (the transaction is pushed before the call is suspended), or to its
\* return when no template is due.
Call_processRecurringTransactions ==
    IF dueTemplates = <<>>
    THEN /\ result' = Success("processRecurringTransactions", <<>>)
         /\ UNCHANGED <<transactions, budgets, goals, categories, insights, initialized, now, tz, running>>
    ELSE /\ transactions' = withGenerated(transactions, Head(dueTemplates))
         /\ running' = Append(running,
                [op |-> "processRecurringTransactions", at |-> "addTransaction",
                 pending |-> dueTemplates,
                 created |-> generatedIn(transactions, Head(dueTemplates))])
         /\ UNCHANGED <<budgets, goals, categories, insights, initialized, now, tz, result>>

\* The suspended call at position i resumes after `await this.addTransaction(...)` and runs
\* to `await this.storage.updateTransaction(...)`: the template's new nextDate is written.
Resume_afterAddTransaction(i) ==
    /\ running[i].op = "processRecurringTransactions"
    /\ running[i].at = "addTransaction"
    /\ transactions' = withNextDate(transactions, Head(running[i].pending))
    /\ running' = [running EXCEPT ![i].at = "updateTransaction"]
    /\ UNCHANGED <<budgets, goals, categories, insights, initialized, now, tz, result>>

\* The suspended call at position i resumes after `await this.storage.updateTransaction(...)`
\* and runs to the next template's `await this.addTransaction(...)`, or to its return.
Resume_afterUpdateTransaction(i) ==
    /\ running[i].op = "processRecurringTransactions"
    /\ running[i].at = "updateTransaction"
    /\ IF Tail(running[i].pending) = <<>>
       THEN /\ result' = Success("processRecurringTransactions", running[i].created)
            /\ running' = splice(running, i)
            /\ UNCHANGED <<transactions, budgets, goals, categories, insights, initialized, now, tz>>
       ELSE /\ transactions' = withGenerated(transactions, Head(Tail(running[i].pending)))
            /\ running' = [running EXCEPT
                   ![i].at = "addTransaction",
                   ![i].pending = Tail(running[i].pending),
                   ![i].created = running[i].created
                       \o generatedIn(transactions, Head(Tail(running[i].pending)))]
            /\ UNCHANGED <<budgets, goals, categories, insights, initialized, now, tz, result>>

----------------------------------------------------------------------------
(* SpecOverlap: up to MaxOverlapCalls processRecurringTransactions calls   *)
(* in flight at once over up to MaxOverlapTemplates templates, the clock   *)
(* standing at ClockStart.                                                 *)

MaxOverlapTemplates == 2
MaxOverlapCalls == 2

\* Templates due twice, due once and not due at ClockStart, each with a frequency
\* that is a number of days.
OverlapInputs ==
    {input \in RecurringInputs : input.description \in {"coffee", "gym", "news", "later"}}

NextOverlap ==
    \/ \E input \in OverlapInputs :
          /\ Len(recurringTx(transactions)) < MaxOverlapTemplates
          /\ createRecurringTransaction("expense", 5, "Subscriptions", input.description,
                                        input.frequency, input.options)
    \/ Len(running) < MaxOverlapCalls /\ Call_processRecurringTransactions
    \/ \E i \in 1..Len(running) : Resume_afterAddTransaction(i)
    \/ \E i \in 1..Len(running) : Resume_afterUpdateTransaction(i)

SpecOverlap == InitBudget /\ [][NextOverlap]_vars

\* The days of one frequency step.
StepDays(frequency) ==
    CASE frequency = "daily" -> 1 [] frequency = "weekly" -> 7 [] frequency = "biweekly" -> 14

\* C30: overlapping processRecurringTransactions calls never both generate a transaction
\* for the same template and occurrence date, and once the calls have returned each
\* template's nextDate is one frequency step on per transaction generated from it.
C30_NoDoubleGeneration ==
    \A i \in Templates :
        /\ \A j, k \in GeneratedOf(transactions, transactions[i].id) :
              transactions[j].date = transactions[k].date => j = k
        /\ running = <<>> =>
              DayNumber(transactions[i].recurringConfig.nextDate) - DayNumber(transactions[i].date)
                  = Cardinality(GeneratedOf(transactions, transactions[i].id))
                      * StepDays(transactions[i].recurringConfig.frequency)
----------------------------------------------------------------------------
(* GoalsService.addContribution and withdrawFromGoal, await by await.  The *)
(* only await of either is `await this.storage.updateGoal(...)`, which     *)
(* writes the goal record before it suspends the call at                   *)
(* `await this.saveData()`; what the call returns is read after it.        *)

\* A variant of depositUpdates that writes the new amount and leaves the contributions
\* for later.
depositUpdates_amountOnly(goal, amount) ==
    [currentAmount |-> goal.currentAmount + amount,
     isCompleted   |-> goal.currentAmount + amount >= goal.targetAmount]

\* The updates addContribution hands to storage.updateGoal.
depositUpdates(goal, amount) ==
    [currentAmount |-> goal.currentAmount + amount,
     isCompleted   |-> goal.currentAmount + amount >= goal.targetAmount,
     contributions |-> Append(goal.contributions, newContribution(goal, amount))]

\* The updates withdrawFromGoal hands to storage.updateGoal.
withdrawalUpdates(goal, amount) ==
    [currentAmount |-> goal.currentAmount - amount,
     isCompleted   |-> FALSE,
     contributions |-> Append(goal.contributions, newContribution(goal, 0 - amount))]

\* A call suspended in storage.updateGoal, holding the index it wrote at.
suspendedInUpdateGoal(op, goalId) ==
    [op |-> op, at |-> "updateGoal", index |-> findIndex(goals, goalId)]

Call_addContribution(goalId, amount) ==
    IF findIndex(goals, goalId) = 0
    THEN /\ result' = Failure("addContribution", "Goal not found", goalId)
         /\ UNCHANGED <<transactions, budgets, goals, categories, insights, initialized, now, tz, running>>
    ELSE IF amount <= 0
    THEN /\ result' = Failure("addContribution", "Invalid amount", "Contribution must be positive")
         /\ UNCHANGED <<transactions, budgets, goals, categories, insights, initialized, now, tz, running>>
    ELSE /\ goals' = storageUpdate(goals, goalId, depositUpdates(getGoalById(goalId), amount))
         /\ running' = Append(running, suspendedInUpdateGoal("addContribution", goalId))
         /\ UNCHANGED <<transactions, budgets, categories, insights, initialized, now, tz, result>>

Call_withdrawFromGoal(goalId, amount) ==
    IF findIndex(goals, goalId) = 0
    THEN /\ result' = Failure("withdrawFromGoal", "Goal not found", goalId)
         /\ UNCHANGED <<transactions, budgets, goals, categories, insights, initialized, now, tz, running>>
    ELSE IF amount <= 0
    THEN /\ result' = Failure("withdrawFromGoal", "Invalid amount", "Withdrawal must be positive")
         /\ UNCHANGED <<transactions, budgets, goals, categories, insights, initialized, now, tz, running>>
    ELSE IF amount > getGoalById(goalId).currentAmount
    THEN /\ result' = Failure("withdrawFromGoal", "Insufficient funds",
                              getGoalById(goalId).currentAmount)
         /\ UNCHANGED <<transactions, budgets, goals, categories, insights, initialized, now, tz, running>>
    ELSE /\ goals' = storageUpdate(goals, goalId, withdrawalUpdates(getGoalById(goalId), amount))
         /\ running' = Append(running, suspendedInUpdateGoal("withdrawFromGoal", goalId))
         /\ UNCHANGED <<transactions, budgets, categories, insights, initialized, now, tz, result>>

\* The suspended call at position i resumes after `await this.saveData()`:
\* storage.updateGoal returns this.data.goals[index] (undefined when no goal is left at
\* the index) and the call returns it as its data.
Resume_afterUpdateGoal(i) ==
    /\ running[i].at = "updateGoal"
    /\ result' = Success(running[i].op,
                         IF running[i].index <= Len(goals) THEN <<goals[running[i].index]>> ELSE <<>>)
    /\ running' = splice(running, i)
    /\ UNCHANGED <<transactions, budgets, goals, categories, insights, initialized, now, tz>>

----------------------------------------------------------------------------
(* SpecGoalsAwait: goals created and deleted while up to MaxGoalCalls      *)
(* deposits and withdrawals are in flight.                                 *)

MaxAwaitGoals == 2
MaxAwaitContributions == 2
MaxGoalCalls == 2

AwaitGoalInputs == {[name |-> "G", targetAmount |-> 2], [name |-> "H", targetAmount |-> 3]}

NextGoalsAwait ==
    \/ \E data \in AwaitGoalInputs : Len(goals) < MaxAwaitGoals /\ createGoal(data)
    \/ \E id \in Ids(goals) : deleteGoal(id)
    \/ \E goalId \in GoalIdInputs, amount \in ContributionAmounts :
          /\ Len(running) < MaxGoalCalls
          /\ goalId \in Ids(goals) => Len(getGoalById(goalId).contributions) < MaxAwaitContributions
          /\ Call_addContribution(goalId, amount)
    \/ \E goalId \in GoalIdInputs, amount \in WithdrawalAmounts :
          /\ Len(running) < MaxGoalCalls
          /\ goalId \in Ids(goals) => Len(getGoalById(goalId).contributions) < MaxAwaitContributions
          /\ Call_withdrawFromGoal(goalId, amount)
    \/ \E i \in 1..Len(running) : Resume_afterUpdateGoal(i)

SpecGoalsAwait == InitBudget /\ [][NextGoalsAwait]_vars

\* C23: at every point where another caller can look at a goal during addContribution
\* and withdrawFromGoal, its currentAmount and contributions are both as before the call
\* or both as after it: every step that changes one of them appends one contribution and
\* moves currentAmount by that contribution's amount.
C23_AmountAndLedgerTogether ==
    [][\A i \in 1..Len(goals), j \in 1..Len(goals') :
          goals[i].id = goals'[j].id =>
          \/ /\ goals'[j].currentAmount = goals[i].currentAmount
             /\ goals'[j].contributions = goals[i].contributions
          \/ /\ Len(goals'[j].contributions) = Len(goals[i].contributions) + 1
             /\ SubSeq(goals'[j].contributions, 1, Len(goals[i].contributions))
                   = goals[i].contributions
             /\ goals'[j].currentAmount
                   = goals[i].currentAmount
                     + goals'[j].contributions[Len(goals'[j].contributions)].amount]_vars

\* A deposit is suspended at its await and the goal it wrote already shows both the new
\* amount and the new contribution.
C23_Witness ==
    \E i \in 1..Len(running) :
        /\ running[i].op = "addContribution"
        /\ running[i].index <= Len(goals)
        /\ goals[running[i].index].contributions # <<>>
        /\ goals[running[i].index].currentAmount > 0
----------------------------------------------------------------------------
(* SpecBudgetCrud: createBudget, updateBudget and deleteBudget called with *)
(* valid and invalid limits, thresholds and periods.                       *)

MaxCrudBudgets == 2

CrudBudgetInputs ==
    [name : {"B"}, category : {"Food & Dining"}, limit : {0, 5}, period : {"monthly", "hourly"}]
    \cup [name : {"B"}, category : {"Food & Dining"}, limit : {5}, period : {"monthly"},
          alertThreshold : {50, 150}]

\* The Partial<Budget> objects callers pass to updateBudget.
CrudBudgetUpdates ==
    {[limit |-> 7], [limit |-> 0], [alertThreshold |-> 150], [period |-> "hourly"], [name |-> "C"]}

NextBudgetCrud ==
    \/ \E data \in CrudBudgetInputs : Len(budgets) < MaxCrudBudgets /\ createBudget(data)
    \/ \E id \in Ids(budgets) \cup {0}, updates \in CrudBudgetUpdates : updateBudget(id, updates)
    \/ \E id \in Ids(budgets) \cup {0} : deleteBudget(id)

SpecBudgetCrud == InitBudget /\ [][NextBudgetCrud]_vars

\* C21: whatever createBudget, updateBudget and deleteBudget calls were made, every stored
\* budget has limit > 0, alertThreshold within [0, 1] and a period among daily, weekly,
\* monthly and yearly.
C21_StoredBudgetsValid ==
    \A i \in 1..Len(budgets) :
        /\ budgets[i].limit > 0
        /\ budgets[i].alertThreshold \in 0..100
        /\ budgets[i].period \in validPeriods
----------------------------------------------------------------------------
(* SpecLedger: every way a transaction enters or changes in the ledger,    *)
(* called with valid and invalid amounts and types.                        *)

MaxLedgerTransactions == 2

LedgerInputs ==
    [type : {"expense", "transfer"}, amount : {0, 2}, category : {"Food & Dining"},
     description : {"lunch"}, date : {<<2023, 12, 31>>}]

LedgerAmounts == {-1, 3}

\* The Partial<Transaction> objects callers pass to updateTransaction.
LedgerUpdates == {[amount |-> 4], [amount |-> 0], [type |-> "income"], [type |-> "transfer"]}

LedgerRecurringInputs == {input \in RecurringInputs : input.description \in {"coffee", "news"}}

NextLedger ==
    \/ \E data \in LedgerInputs :
          Len(transactions) < MaxLedgerTransactions /\ addTransaction(data)
    \/ \E amount \in LedgerAmounts :
          /\ Len(transactions) < MaxLedgerTransactions
          /\ Clawhub_addExpense(amount, "Food & Dining", "lunch", <<>>)
    \/ \E amount \in LedgerAmounts :
          /\ Len(transactions) < MaxLedgerTransactions
          /\ Clawhub_addIncome(amount, "Salary", "pay", <<>>)
    \/ \E input \in ServiceTexts :
          /\ Len(transactions) < MaxLedgerTransactions
          /\ Clawhub_addFromNaturalLanguage(input)
    \/ \E id \in Ids(transactions), updates \in LedgerUpdates : updateTransaction(id, updates)
    \/ \E input \in LedgerRecurringInputs :
          /\ Len(transactions) < MaxLedgerTransactions
          /\ createRecurringTransaction("expense", 5, "Subscriptions", input.description,
                                        input.frequency, input.options)
    \/ Len(transactions) < MaxLedgerTransactions /\ processRecurringTransactions

SpecLedger == InitBudget /\ [][NextLedger]_vars

\* C22: whatever addTransaction, addExpense, addIncome, addFromNaturalLanguage,
\* updateTransaction, createRecurringTransaction and processRecurringTransactions calls
\* were made, every transaction of the ledger has amount > 0 and type expense or income.
C22_LedgerAmountsPositive ==
    \A i \in 1..Len(transactions) :
        transactions[i].amount > 0 /\ transactions[i].type \in {"expense", "income"}
----------------------------------------------------------------------------
(* The read side of TransactionService, GoalsService and BudgetEngine.     *)
(* storage.getTransactions() and storage.getGoals() hand out the stored    *)
(* array itself; filter() makes a new array and sort() orders the array it *)
(* is called on.  The model's transactions carry no tags and no merchant,  *)
(* so the tags and search options are never passed.                        *)

\* xs.sort(compare): each element after those that compare before it and after the
\* equal ones that stood before it.
sorted(xs, Before(_, _)) ==
    [p \in 1..Len(xs) |->
        xs[CHOOSE i \in 1..Len(xs) :
              Cardinality({j \in 1..Len(xs) :
                              \/ Before(xs[j], xs[i])
                              \/ ~Before(xs[i], xs[j]) /\ j < i}) = p - 1]]

\* The filters of getTransactions, in the order they run.
filterTransactions(txs, options) ==
    SelectSeq(txs, LAMBDA t :
        /\ Has(options, "type") => t.type = options.type
        /\ Has(options, "category") => toLowerCase(t.category) = toLowerCase(options.category)
        /\ Has(options, "startDate") => DateLE(options.startDate, t.date)
        /\ Has(options, "endDate") => DateLE(t.date, options.endDate)
        /\ Has(options, "minAmount") => t.amount >= options.minAmount
        /\ Has(options, "maxAmount") => t.amount <= options.maxAmount)

\* Some filter ran, so `transactions` is no longer the stored array.
isFiltered(options, filters) == DOMAIN options \cap filters # {}

TransactionFilters == {"type", "category", "startDate", "endDate", "minAmount", "maxAmount"}

\* transactions.sort((a, b) => new Date(b.date).getTime() - new Date(a.date).getTime())
mostRecentFirst(txs) == sorted(txs, LAMBDA a, b : newDate(a.date) > newDate(b.date))

\* What getTransactions returns.
transactionsFound(options) ==
    With(mostRecentFirst(filterTransactions(transactions, options)), LAMBDA found :
        IF Has(options, "limit") /\ options.limit # 0 THEN slice(found, options.limit)
        ELSE found)

\* The stored ledger once getTransactions has run.
ledgerAfterGet(options) ==
    IF isFiltered(options, TransactionFilters) THEN transactions
    ELSE mostRecentFirst(transactions)

getTransactions(options) ==
    /\ transactions' = ledgerAfterGet(options)
    /\ result' = Called("getTransactions", options, transactionsFound(options))
    /\ UNCHANGED <<budgets, goals, categories, insights, initialized, now, tz, running>>

\* Object.entries(categoryTotals).sort((a, b) => b[1] - a[1])[0]?.[0] || null
topCategoryOf(expenses) ==
    With(sorted(unique(categoriesOf(expenses)), LAMBDA a, b :
             SumAmounts(SelectSeq(expenses, LAMBDA t : t.category = a))
                 > SumAmounts(SelectSeq(expenses, LAMBDA t : t.category = b))), LAMBDA top :
        IF top = <<>> THEN <<>> ELSE <<Head(top)>>)

\* The statistics of some transactions; an average is [num, den], 0 when there is nothing
\* to average.
statsOf(txs, expenses, income) ==
    [totalTransactions |-> Len(txs),
     totalExpenses     |-> SumAmounts(expenses),
     totalIncome       |-> SumAmounts(income),
     netSavings        |-> SumAmounts(income) - SumAmounts(expenses),
     avgExpense        |-> IF Len(expenses) > 0 THEN [num |-> SumAmounts(expenses), den |-> Len(expenses)]
                           ELSE [num |-> 0, den |-> 1],
     avgIncome         |-> IF Len(income) > 0 THEN [num |-> SumAmounts(income), den |-> Len(income)]
                           ELSE [num |-> 0, den |-> 1],
     topCategory       |-> topCategoryOf(expenses)]

\* options holds startDate and endDate, each optional.
getTransactionStats(options) ==
    /\ transactions' = ledgerAfterGet(options)
    /\ result' = Called("getTransactionStats", options,
                        With(transactionsFound(options), LAMBDA txs :
                            statsOf(txs, SelectSeq(txs, LAMBDA t : t.type = "expense"),
                                         SelectSeq(txs, LAMBDA t : t.type = "income"))))
    /\ UNCHANGED <<budgets, goals, categories, insights, initialized, now, tz, running>>

GoalFilters == {"priority", "isCompleted"}

filterGoals(gs, options) ==
    SelectSeq(gs, LAMBDA g :
        /\ Has(options, "priority") => g.priority = options.priority
        /\ Has(options, "isCompleted") => g.isCompleted = options.isCompleted)

\* const priorityOrder = { high: 0, medium: 1, low: 2 }
priorityOrder == [high |-> 0, medium |-> 1, low |-> 2]

\* goals.sort(...) for the sortBy values 'progress', 'deadline' and 'priority'; the
\* targets are positive.
sortGoals(gs, sortBy) ==
    CASE sortBy = "progress" ->
            sorted(gs, LAMBDA a, b :
                a.currentAmount * b.targetAmount > b.currentAmount * a.targetAmount)
      [] sortBy = "deadline" ->
            sorted(gs, LAMBDA a, b :
                Has(a, "deadline")
                    /\ (Has(b, "deadline") => newDate(a.deadline) < newDate(b.deadline)))
      [] sortBy = "priority" ->
            sorted(gs, LAMBDA a, b : priorityOrder[a.priority] < priorityOrder[b.priority])

goalsFound(options) ==
    IF Has(options, "sortBy") THEN sortGoals(filterGoals(goals, options), options.sortBy)
    ELSE filterGoals(goals, options)

getGoals(options) ==
    /\ goals' = IF isFiltered(options, GoalFilters) \/ ~Has(options, "sortBy") THEN goals
                ELSE sortGoals(goals, options.sortBy)
    /\ result' = Called("getGoals", options, goalsFound(options))
    /\ UNCHANGED <<transactions, budgets, categories, insights, initialized, now, tz, running>>

\* One suggestion: average is [num, den], suggested is Math.ceil(average * 1.2).
suggestionOf(category, amounts) ==
    [category  |-> category,
     suggested |-> -((-(6 * SumAmounts(amounts))) \div (5 * Len(amounts))),
     average   |-> [num |-> SumAmounts(amounts), den |-> Len(amounts)],
     max       |-> CHOOSE m \in {amounts[i].amount : i \in 1..Len(amounts)} :
                      \A i \in 1..Len(amounts) : amounts[i].amount <= m]

suggestBudgetLimits ==
    With(SelectSeq(transactions, LAMBDA t : t.type = "expense"), LAMBDA expenses :
        MapSeq(unique(categoriesOf(expenses)), LAMBDA category :
            suggestionOf(category, SelectSeq(expenses, LAMBDA t : t.category = category))))

Query_suggestBudgetLimits ==
    /\ result' = Called("suggestBudgetLimits", <<>>, suggestBudgetLimits)
    /\ UNCHANGED <<transactions, budgets, goals, categories, insights, initialized, now, tz, running>>

Query_getSpendingSummary ==
    /\ result' = Called("getSpendingSummary", <<>>, getSpendingSummary(getCurrentMonthRange))
    /\ UNCHANGED <<transactions, budgets, goals, categories, insights, initialized, now, tz, running>>

----------------------------------------------------------------------------
(* The read-side operations over a store filled by addTransaction,         *)
(* createBudget, createGoal and addContribution: transactions are added in *)
(* any order of date, goals in any order of priority and progress.         *)

MaxReadTransactions == 2
MaxReadBudgets == 1
MaxReadGoals == 2

ReadTransactionInputs ==
    {[type |-> "expense", amount |-> 2, category |-> "Food & Dining",
      description |-> "lunch", date |-> <<2023, 12, 30>>],
     [type |-> "expense", amount |-> 3, category |-> "Pets",
      description |-> "vet", date |-> <<2023, 12, 31>>],
     [type |-> "income", amount |-> 3, category |-> "Salary",
      description |-> "pay", date |-> <<2023, 12, 31>>]}

ReadBudgetInputs == {[name |-> "B", category |-> "Food & Dining", limit |-> 5, period |-> "monthly"]}

ReadGoalInputs ==
    {[name |-> "G", targetAmount |-> 2, priority |-> "low"],
     [name |-> "H", targetAmount |-> 2, currentAmount |-> 1, priority |-> "high",
      deadline |-> <<2024, 1, 1>>]}

\* What callers pass to getTransactions and getTransactionStats.
GetTransactionsOptions ==
    {<<>>, [limit |-> 1], [type |-> "expense"], [category |-> "pets"],
     [minAmount |-> 3], [maxAmount |-> 2]}

GetTransactionStatsOptions ==
    {<<>>, [startDate |-> <<2023, 12, 31>>], [endDate |-> <<2023, 12, 30>>]}

GetGoalsOptions ==
    {<<>>, [priority |-> "high"], [isCompleted |-> FALSE], [sortBy |-> "priority"],
     [sortBy |-> "progress"], [sortBy |-> "deadline"],
     [isCompleted |-> FALSE, sortBy |-> "priority"]}

ReadOps ==
    {"getSpendingSummary", "getDailyTrends", "getWeeklyTrends", "getMonthlyTrends",
     "generateMonthlyReport", "compareToLastMonth", "getBudgetStatus", "checkBudgetAlerts",
     "suggestBudgetLimits", "getTransactions", "getTransactionStats", "getGoals",
     "getGoalProgress"}

NextReads ==
    \/ \E data \in ReadTransactionInputs :
          Len(transactions) < MaxReadTransactions /\ addTransaction(data)
    \/ \E data \in ReadBudgetInputs : Len(budgets) < MaxReadBudgets /\ createBudget(data)
    \/ \E data \in ReadGoalInputs : Len(goals) < MaxReadGoals /\ createGoal(data)
    \/ Query_getSpendingSummary
    \/ Query_getDailyTrends(1)
    \/ Query_getWeeklyTrends(1)
    \/ Query_getMonthlyTrends(1)
    \/ Query_generateMonthlyReport(<<>>, <<>>)
    \/ Query_compareToLastMonth
    \/ Query_getBudgetStatus(<<>>)
    \/ Query_checkBudgetAlerts
    \/ Query_suggestBudgetLimits
    \/ \E options \in GetTransactionsOptions : getTransactions(options)
    \/ \E options \in GetTransactionStatsOptions : getTransactionStats(options)
    \/ \E options \in GetGoalsOptions : getGoals(options)
    \/ \E goalId \in Ids(goals) : Query_getGoalProgress(goalId)

SpecReads == InitBudget /\ [][NextReads]_vars

\* C24: a call of a read-side operation (getSpendingSummary, the trends,
\* generateMonthlyReport, compareToLastMonth, getBudgetStatus, checkBudgetAlerts,
\* suggestBudgetLimits, getTransactions, getTransactionStats, getGoals, getGoalProgress)
\* leaves the stored transactions, budgets and goals as they were: the same entities with
\* the same field values in the same order.
C24_ReadsLeaveStore ==
    [][result'.op \in ReadOps
           => transactions' = transactions /\ budgets' = budgets /\ goals' = goals]_vars

====
